---- MODULE Spec2Model ----
(***************************************************************************)
(* State-machine model of implementations/python/setup_oci_terraform.py:   *)
(* the retry loops, the resource inventory and quota calculator, and the   *)
(* Terraform import / plan / apply workflow with the process exit code.    *)
(*                                                                         *)
(* Texts (error messages, command output) are sequences of one-character   *)
(* strings so that lower-casing and substring search are computed.         *)
(***************************************************************************)
EXTENDS Integers, Sequences, FiniteSets, TLC

VARIABLES
    \* ---- retry configuration (environment) ----
    maxAttempts,     \* RETRY_MAX_ATTEMPTS
    baseDelay,       \* RETRY_BASE_DELAY
    \* ---- one activation of retry_with_backoff ----
    rb,
    \* ---- one activation of out_of_capacity_auto_apply ----
    ap,
    \* ---- the tenancy as the provider answers for it ----
    tenancy,
    \* ---- process-wide inventory (insertion-ordered dicts, as sequences) ----
    existing_vcns,
    existing_subnets,
    existing_internet_gateways,
    existing_route_tables,
    existing_security_lists,
    existing_amd_instances,
    existing_arm_instances,
    existing_boot_volumes,
    existing_block_volumes,
    \* ---- inventory phase ----
    ipc,             \* position in inventory_all_resources and the quota step
    scan,            \* the answers the provider gave to the scans (observation)
    ociLog,          \* the oci_cmd calls made so far, as the set of their
                     \* [ok, invocations]: outcome and vendor CLI invocations
    available,       \* what calculate_available_resources returned
    \* ---- environment switches ----
    NON_INTERACTIVE,
    AUTO_DEPLOY,
    \* ---- the plan (InstanceConfig) ----
    instance_config,
    \* ---- Terraform's working directory ----
    tfstate,         \* the resource addresses recorded in Terraform state
    tfplan,          \* the plan artifact "tfplan": << >> when there is no such
                     \* file, else <<the configuration it was planned for>>
    \* ---- control ----
    pc,              \* position in main / terraform_menu / the workflow
    menu_rounds,     \* how many menu options have been taken
    imp,             \* import_existing_resources: caller, cursor, counters
    exitCode,        \* the process exit code, -1 while running
    \* ---- observations ----
    run,             \* what the current run_terraform_workflow has done
    batch,           \* what the current import_existing_resources has done
    \* ---- configuration planner ----
    SKIP_CONFIG,
    AUTO_USE_EXISTING,
    ubuntu_arm_flex_image_ocid,   \* whether oci_config holds an ARM image id
    variables_tf,    \* the file variables.tf: whether it exists, the text of
                     \* its plan lines, the plan it was written from
    ppc,             \* position in Phases 5 and 6 of main
    plan_rounds,     \* how many times the planner has run
    planned,         \* what the last run of the planner did (observation)
    validation       \* what the last validate_proposed_config did

retryVars == <<maxAttempts, baseDelay, rb, ap>>

existingVars ==
    <<existing_vcns, existing_subnets, existing_internet_gateways,
      existing_route_tables, existing_security_lists, existing_amd_instances,
      existing_arm_instances, existing_boot_volumes, existing_block_volumes>>

invVars == <<tenancy, ipc, ociLog, available, scan>>

wfVars ==
    <<NON_INTERACTIVE, AUTO_DEPLOY, instance_config, tfstate, tfplan, pc,
      menu_rounds, imp, exitCode, run, batch>>

planVars ==
    <<SKIP_CONFIG, AUTO_USE_EXISTING, ubuntu_arm_flex_image_ocid, variables_tf,
      ppc, plan_rounds, planned, validation>>

vars == <<retryVars, existingVars, invVars, wfVars, planVars>>

(***************************************************************************)
(* Bounds of the model.                                                    *)
(***************************************************************************)
MaxAttemptsBound == 3
MaxAmdInTenancy == 3
MaxArmInTenancy == 2
MaxBootVolumes == 2
MaxWorkflowAttempts == 2
MaxAmdExisting == 2
MaxMenuRounds == 1

\* how many times the planner runs again after its first run
MaxPlanRounds == 1

\* the AMD instances of a tenancy that is scanned twice
MaxAmdRescan == 2

(***************************************************************************)
(* Program constants.                                                      *)
(***************************************************************************)
DEFAULT_RETRY_MAX_ATTEMPTS == 8
DEFAULT_RETRY_BASE_DELAY == 15
FREE_TIER_MAX_AMD_INSTANCES == 2
FREE_TIER_MAX_ARM_OCPUS == 4
FREE_TIER_MAX_ARM_MEMORY_GB == 24
FREE_TIER_MAX_STORAGE_GB == 200
FREE_TIER_MIN_BOOT_VOLUME_GB == 47
FREE_TIER_MAX_ARM_INSTANCES == 4
FREE_TIER_MAX_VCNS == 2

(***************************************************************************)
(* Texts.                                                                  *)
(***************************************************************************)
UpperLetters == <<"A","B","C","D","E","F","G","H","I","J","K","L","M",
                  "N","O","P","Q","R","S","T","U","V","W","X","Y","Z">>
LowerLetters == <<"a","b","c","d","e","f","g","h","i","j","k","l","m",
                  "n","o","p","q","r","s","t","u","v","w","x","y","z">>

\* str.lower() on one character
LowerChar(c) ==
    IF \E i \in 1..Len(UpperLetters) : UpperLetters[i] = c
    THEN LowerLetters[CHOOSE i \in 1..Len(UpperLetters) : UpperLetters[i] = c]
    ELSE c

\* str.lower()
Lower(s) == [i \in 1..Len(s) |-> LowerChar(s[i])]

\* `term in s`
Contains(s, term) ==
    \E i \in 1..(Len(s) - Len(term) + 1) : SubSeq(s, i, i + Len(term) - 1) = term

TermOutOfCapacity == <<"o","u","t"," ","o","f"," ","c","a","p","a","c","i","t","y">>
TermOutOfHostCapacity == <<"o","u","t"," ","o","f"," ","h","o","s","t"," ","c","a","p","a","c","i","t","y">>
TermOutofcapacity == <<"o","u","t","o","f","c","a","p","a","c","i","t","y">>
TermOutofhostcapacity == <<"o","u","t","o","f","h","o","s","t","c","a","p","a","c","i","t","y">>

CapacityTerms ==
    {TermOutOfCapacity, TermOutOfHostCapacity, TermOutofcapacity, TermOutofhostcapacity}

\* "Out of host capacity: Limit exceeded"
TextHostCapacity == <<"O","u","t"," ","o","f"," ","h","o","s","t"," ","c","a","p","a","c","i","t","y",":"," ","L","i","m","i","t"," ","e","x","c","e","e","d","e","d">>
\* "Invalid parameter: shape"
TextInvalidShape == <<"I","n","v","a","l","i","d"," ","p","a","r","a","m","e","t","e","r",":"," ","s","h","a","p","e">>
\* "OUT OF CAPACITY"
TextUpperCapacity == <<"O","U","T"," ","O","F"," ","C","A","P","A","C","I","T","Y">>
\* "500-OutOfHostCapacity"
TextCamelCapacity == <<"5","0","0","-","O","u","t","O","f","H","o","s","t","C","a","p","a","c","i","t","y">>
\* "capacity limit"
TextCapacityOnly == <<"c","a","p","a","c","i","t","y"," ","l","i","m","i","t">>
\* str(CalledProcessError): "... returned non-zero exit status 1"
TextInitError == <<"r","e","t","u","r","n","e","d"," ","n","o","n","-","z","e","r","o"," ","e","x","i","t"," ","s","t","a","t","u","s"," ","1">>

\* the error texts an operation may fail with
ErrorTexts ==
    {TextHostCapacity, TextInvalidShape, TextUpperCapacity, TextCamelCapacity,
     TextCapacityOnly, TextInitError}

\* any(term in text.lower() for term in [...])
HasCapacitySignalCaseSensitive(text) ==
    \E term \in CapacityTerms : Contains(text, term)

HasCapacitySignal(text) ==
    \E term \in CapacityTerms : Contains(Lower(text), term)

\* HasCapacitySignal over the texts the commands of the model end with
CapacitySignalOf == [text \in ErrorTexts |-> HasCapacitySignal(text)]

(***************************************************************************)
(* retry_with_backoff(func, max_attempts, base_delay).                     *)
(*   rb.attempt     the local attempt                                      *)
(*   rb.last_error  << >> for None, <<text>> for the last exception        *)
(*   rb.status      "idle", "running", "returned" or "raised"              *)
(*   rb.raised      what the raise statement raised (<<text>>), or         *)
(*                  <<TypeErrorText>> when it was handed None              *)
(*   rb.calls       invocations of func so far                             *)
(*   rb.sleeps      the time.sleep arguments, in order                     *)
(*   rb.log         the warnings printed, one per failed attempt           *)
(*   rb.errors      what func raised, attempt by attempt (observation)     *)
(***************************************************************************)
\* raise None: "exceptions must derive from BaseException"
TypeErrorText == <<"T","y","p","e","E","r","r","o","r">>

RbIdle ==
    [attempt |-> 0, last_error |-> << >>, status |-> "idle", raised |-> << >>,
     calls |-> 0, sleeps |-> << >>, log |-> << >>, errors |-> << >>]

\* attempt = 1; last_error = None
RbStart == [RbIdle EXCEPT !.attempt = 1, !.status = "running"]

\* while attempt <= max_attempts
RetryLoopGuard(attempt, max) == attempt <= max

\* if attempt < max_attempts (sleep and go on) else break
RetryShouldRetryEarly(attempt, max) == attempt + 1 < max

RetryShouldRetry(attempt, max) == attempt < max

\* base_delay * (2 ** (attempt - 1))
BackoffDelayNextPower(base, attempt) == base * (2 ^ attempt)

BackoffDelay(base, attempt) == base * (2 ^ (attempt - 1))

\* one pass of the loop body: func returned (ok) or raised text
RetryIteration(st, ok, text, max, base) ==
    IF ok
    THEN [st EXCEPT !.calls = @ + 1, !.status = "returned"]
    ELSE LET warned == IF CapacitySignalOf[text]
                       THEN "out_of_capacity" ELSE "command_failed"
             st1 == [st EXCEPT !.calls = @ + 1,
                               !.errors = Append(@, text),
                               !.log = Append(@, [msg |-> warned, attempt |-> st.attempt]),
                               !.last_error = <<text>>]
         IN IF RetryShouldRetry(st.attempt, max)
            THEN [st1 EXCEPT !.sleeps = Append(@, BackoffDelay(base, st.attempt)),
                             !.attempt = @ + 1]
            ELSE \* break; raise last_error
                 [st1 EXCEPT !.status = "raised", !.raised = st1.last_error]

\* the loop condition is false: raise last_error
RetryFallThrough(st) ==
    [st EXCEPT !.status = "raised",
               !.raised = IF st.last_error = << >> THEN <<TypeErrorText>>
                          ELSE st.last_error]

\* a whole call of retry_with_backoff, func succeeding (oks[attempt]) or
\* raising text at each attempt
RECURSIVE RetryRun(_, _, _, _, _)
RetryRun(st, oks, text, max, base) ==
    IF st.status # "running" THEN st
    ELSE IF ~RetryLoopGuard(st.attempt, max) THEN RetryFallThrough(st)
    ELSE RetryRun(RetryIteration(st, oks[st.attempt], text, max, base),
                  oks, text, max, base)

(***************************************************************************)
(* out_of_capacity_auto_apply().                                           *)
(*   ap.status   "idle", "running", "true" (returned True) or "false"      *)
(*   ap.calls    invocations of terraform apply                            *)
(*   ap.printed  the raw outputs handed to console.print                   *)
(*   ap.log      the messages printed                                      *)
(*   ap.outputs  stdout + stderr of each failed apply (observation)        *)
(***************************************************************************)
ApIdle ==
    [attempt |-> 0, status |-> "idle", calls |-> 0, sleeps |-> << >>,
     printed |-> << >>, log |-> << >>, outputs |-> << >>]

ApStart == [ApIdle EXCEPT !.attempt = 1, !.status = "running"]

\* while attempt <= RETRY_MAX_ATTEMPTS
ApplyLoopGuard(attempt, max) == attempt <= max

\* if attempt < RETRY_MAX_ATTEMPTS
ApplyShouldRetry(attempt, max) == attempt < max

\* one pass of the loop body: terraform apply ended with rc and output
ApplyIteration(st, rc, output, max, base) ==
    LET st1 == [st EXCEPT !.calls = @ + 1,
                          !.outputs = IF rc = 0 THEN @ ELSE Append(@, output)]
    IN IF rc = 0
       THEN [st1 EXCEPT !.status = "true",
                        !.log = Append(@, [msg |-> "succeeded", attempt |-> st.attempt])]
       ELSE IF ~CapacitySignalOf[output]
       THEN [st1 EXCEPT !.status = "false",
                        !.printed = Append(@, output),
                        !.log = Append(@, [msg |-> "non_retryable", attempt |-> st.attempt])]
       ELSE LET st2 == [st1 EXCEPT !.log = Append(@, [msg |-> "capacity_will_retry",
                                                      attempt |-> st.attempt])]
            IN IF ApplyShouldRetry(st.attempt, max)
               THEN [st2 EXCEPT !.sleeps = Append(@, BackoffDelay(base, st.attempt)),
                                !.attempt = @ + 1]
               ELSE \* break; "did not succeed after N attempts"; return False
                    [st2 EXCEPT !.status = "false",
                                !.log = Append(@, [msg |-> "exhausted", attempt |-> st.attempt])]

\* the loop condition is false: return False
ApplyFallThrough(st) ==
    [st EXCEPT !.status = "false",
               !.log = Append(@, [msg |-> "exhausted", attempt |-> st.attempt])]

(***************************************************************************)
(* The tenancy and the inventory.                                          *)
(*   tenancy.amd     number of VM.Standard.E2.1.Micro instances            *)
(*   tenancy.arm     the VM.Standard.A1.Flex instances: [ocpus, memory]    *)
(*   tenancy.other   number of instances of any other shape                *)
(*   tenancy.vcns    number of AVAILABLE VCNs                              *)
(*   tenancy.net     the components of the VCNs: [kind, default, vcn]      *)
(*   tenancy.boot    sizes of the AVAILABLE boot volumes                   *)
(*   tenancy.block   sizes of the AVAILABLE block volumes                  *)
(* An oci_cmd call ends "ok" (exit code 0, stdout returned) or "fails"     *)
(* (non-zero exit code, timeout or exception: None returned).              *)
(***************************************************************************)
SeqsUpTo(S, n) == UNION {[1..k -> S] : k \in 0..n}

ArmShapeConfigs == {[ocpus |-> 1, memory |-> 6], [ocpus |-> 4, memory |-> 24]}
BootVolumeSizes == {50, 100}

\* a VCN with one default-named and one custom component of each kind
FullNet ==
    << [kind |-> "internet_gateway", default |-> FALSE, vcn |-> 1],
       [kind |-> "subnet", default |-> FALSE, vcn |-> 1],
       [kind |-> "route_table", default |-> FALSE, vcn |-> 1],
       [kind |-> "route_table", default |-> TRUE, vcn |-> 1],
       [kind |-> "security_list", default |-> TRUE, vcn |-> 1] >>

\* two VCNs: the first with a subnet and a custom route table, the second
\* with an internet gateway, a default route table and a default security
\* list (the dicts hold the components of the first VCN first)
TwoVcnNet ==
    << [kind |-> "subnet", default |-> FALSE, vcn |-> 1],
       [kind |-> "route_table", default |-> FALSE, vcn |-> 1],
       [kind |-> "internet_gateway", default |-> FALSE, vcn |-> 2],
       [kind |-> "route_table", default |-> TRUE, vcn |-> 2],
       [kind |-> "security_list", default |-> TRUE, vcn |-> 2] >>

Tenancies ==
    [amd : 0..MaxAmdInTenancy,
     arm : SeqsUpTo(ArmShapeConfigs, MaxArmInTenancy),
     other : {1},
     vcns : {0, 1},
     net : {<< >>, FullNet},
     boot : SeqsUpTo(BootVolumeSizes, MaxBootVolumes),
     block : {<< >>, <<100>>}]

OciOutcomes == {"ok", "fails"}

ComponentKinds == {"subnet", "internet_gateway", "route_table", "security_list"}

\* oci_cmd(cmd): run_command once; stdout on exit code 0, None otherwise
OciCmd(cmd, outcome) ==
    [cmd |-> cmd, ok |-> (outcome = "ok"), invocations |-> 1]

NoOciCalls == {}

\* the log after the oci_cmd calls of `results` were made
LogOci(log, results) ==
    log \cup {[ok |-> results[i].ok, invocations |-> results[i].invocations] :
                 i \in 1..Len(results)}

\* keep the members of a sequence that satisfy Test
RECURSIVE SelectKind(_, _)
SelectKind(s, kind) ==
    IF s = << >> THEN << >>
    ELSE IF Head(s).kind = kind
         THEN <<Head(s)>> \o SelectKind(Tail(s), kind)
         ELSE SelectKind(Tail(s), kind)

\* str(n) of an integer, as the characters of the text
DigitChars == <<"0", "1", "2", "3", "4", "5", "6", "7", "8", "9">>

RECURSIVE StrNat(_)
StrNat(n) ==
    IF n < 10 THEN <<DigitChars[n + 1]>>
    ELSE StrNat(n \div 10) \o <<DigitChars[(n % 10) + 1]>>

Str(n) == IF n < 0 THEN <<"-">> \o StrNat(0 - n) ELSE StrNat(n)

\* the display-name of the i-th instance of a shape in the tenancy
DisplayName(kind, i) ==
    IF kind = "amd" THEN <<"w", "e", "b", "-">> \o Str(i)
    ELSE <<"d", "b", "-">> \o Str(i)

\* inventory_compute_instances: the two dicts it leaves
AmdInstancesFound(t, list) ==
    IF list.ok
    THEN [i \in 1..t.amd |-> [id |-> <<"amd", i>>, name |-> DisplayName("amd", i)]]
    ELSE << >>

ArmInstancesFound(t, list, details) ==
    IF list.ok
    THEN [i \in 1..Len(t.arm) |->
            [id |-> <<"arm", i>>,
             name |-> DisplayName("arm", i),
             ocpus |-> IF details[i].ok THEN t.arm[i].ocpus ELSE 0,
             memory |-> IF details[i].ok THEN t.arm[i].memory ELSE 0]]
    ELSE << >>

\* inventory_networking_resources: the VCNs and, per VCN, its components
VcnsFound(t, list) ==
    IF list.ok THEN [i \in 1..t.vcns |-> [id |-> <<"vcn", i>>]] ELSE << >>

ComponentsFound(t, list, sub, kind) ==
    IF list.ok /\ t.vcns > 0 /\ sub.ok
    THEN LET mine == SelectKind(t.net, kind)
         IN [i \in 1..Len(mine) |->
               [id |-> <<kind, i>>, vcn_id |-> <<"vcn", mine[i].vcn>>,
                default |-> mine[i].default]]
    ELSE << >>

\* inventory_storage_resources: one dict per volume list
VolumesFoundDespiteFailure(sizes, list, kind) ==
    [i \in 1..Len(sizes) |-> [id |-> <<kind, i>>, size |-> sizes[i]]]

VolumesFound(sizes, list, kind) ==
    IF list.ok THEN [i \in 1..Len(sizes) |-> [id |-> <<kind, i>>, size |-> sizes[i]]]
    ELSE << >>

(***************************************************************************)
(* calculate_available_resources().                                        *)
(***************************************************************************)
RECURSIVE SumOcpus(_)
SumOcpus(insts) ==
    IF insts = << >> THEN 0 ELSE Head(insts).ocpus + SumOcpus(Tail(insts))

RECURSIVE SumMemory(_)
SumMemory(insts) ==
    IF insts = << >> THEN 0 ELSE Head(insts).memory + SumMemory(Tail(insts))

RECURSIVE SumSize(_)
SumSize(vols) ==
    IF vols = << >> THEN 0 ELSE Head(vols).size + SumSize(Tail(vols))

Max(a, b) == IF a >= b THEN a ELSE b
Min(a, b) == IF a <= b THEN a ELSE b

CalculateAvailableResourcesClamped(amd, arm, boot, block) ==
    [amd_instances |-> Max(0, FREE_TIER_MAX_AMD_INSTANCES - Len(amd)),
     arm_ocpus |-> Max(0, FREE_TIER_MAX_ARM_OCPUS - SumOcpus(arm)),
     arm_memory |-> Max(0, FREE_TIER_MAX_ARM_MEMORY_GB - SumMemory(arm)),
     storage |-> Max(0, FREE_TIER_MAX_STORAGE_GB - (SumSize(boot) + SumSize(block))),
     used_arm_instances |-> Len(arm)]

CalculateAvailableResources(amd, arm, boot, block) ==
    [amd_instances |-> FREE_TIER_MAX_AMD_INSTANCES - Len(amd),
     arm_ocpus |-> FREE_TIER_MAX_ARM_OCPUS - SumOcpus(arm),
     arm_memory |-> FREE_TIER_MAX_ARM_MEMORY_GB - SumMemory(arm),
     storage |-> FREE_TIER_MAX_STORAGE_GB - (SumSize(boot) + SumSize(block)),
     used_arm_instances |-> Len(arm)]

NoAvailable == [computed |-> FALSE]

(***************************************************************************)
(* Terraform as the workflow uses it.  A resource address is a pair        *)
(* <<resource, index>>: oci_core_instance.amd[1] is                        *)
(* <<"oci_core_instance.amd", 1>>, a singleton such as oci_core_vcn.main   *)
(* has index 0.                                                            *)
(***************************************************************************)
VcnAddress == <<"oci_core_vcn.main", 0>>

ComponentAddress(kind) ==
    CASE kind = "internet_gateway" -> <<"oci_core_internet_gateway.main", 0>>
      [] kind = "subnet" -> <<"oci_core_subnet.main", 0>>
      [] kind = "route_table" -> <<"oci_core_default_route_table.main", 0>>
      [] kind = "security_list" -> <<"oci_core_default_security_list.main", 0>>

\* the addresses main.tf declares for a plan
PlannedAddresses(config) ==
    {VcnAddress}
    \cup {ComponentAddress(k) : k \in ComponentKinds}
    \cup {<<"oci_core_instance.amd", i>> : i \in 0..(config.amd_micro_instance_count - 1)}
    \cup {<<"oci_core_instance.arm", i>> : i \in 0..(config.arm_flex_instance_count - 1)}

\* terraform state show <address>: exit code 0 when the address is in state
TerraformStateShow(state, addr) == IF addr \in state THEN 0 ELSE 1

\* the exit codes and outputs a terraform import may end with
ImportOutcomes == {"fails", "imported", "imported_silently"}

(***************************************************************************)
(* import_existing_resources(): the resources it goes through, in order:   *)
(* the first VCN, then existing AMD instance i at oci_core_instance.amd[i] *)
(* while i < amd_micro_instance_count, then the ARM instances likewise.    *)
(***************************************************************************)
VcnItems(vcns) ==
    IF vcns # << >>
    THEN << [kind |-> "vcn", addr |-> VcnAddress, id |-> vcns[1].id] >>
    ELSE << >>

InstanceItems(kind, resource, insts, count) ==
    [i \in 1..Min(Len(insts), Max(count, 0)) |->
        [kind |-> kind, addr |-> <<resource, i - 1>>, id |-> insts[i].id]]

ImportItems ==
    VcnItems(existing_vcns)
    \o InstanceItems("amd", "oci_core_instance.amd", existing_amd_instances,
                     instance_config.amd_micro_instance_count)
    \o InstanceItems("arm", "oci_core_instance.arm", existing_arm_instances,
                     instance_config.arm_flex_instance_count)

\* if result.returncode == 0: "Already in state" else: import
NeedsImportAlways(show_rc) == TRUE

NeedsImport(show_rc) == show_rc # 0

\* run_cmd_with_retries_and_check: success of a command that went through
\* retry_with_backoff (its output is no JSON: output.strip() != "")
CheckedSuccess(status, silent) == status = "returned" /\ ~silent

\* the item after this one: the loops go on whatever the outcome
NextItemStopOnFailure(cursor, outcome, n) ==
    IF outcome = "failed" THEN n + 1 ELSE cursor + 1

NextItem(cursor, outcome, n) == cursor + 1

\* imported += 1 / failed += 1
CountOutcome(counts, outcome) ==
    [imported |-> counts.imported + (IF outcome = "imported" THEN 1 ELSE 0),
     failed |-> counts.failed + (IF outcome = "failed" THEN 1 ELSE 0)]

\* import_vcn_components: for each kind the first component of the VCN
\* (for route tables and security lists: the first whose name holds
\* "Default" or "default"), or << >>
RECURSIVE FirstMatchAnyVcn(_, _, _)
FirstMatchAnyVcn(comps, vcn_id, need_default) ==
    IF comps = << >> THEN << >>
    ELSE IF need_default => Head(comps).default
         THEN <<Head(comps)>>
         ELSE FirstMatchAnyVcn(Tail(comps), vcn_id, need_default)

RECURSIVE FirstMatch(_, _, _)
FirstMatch(comps, vcn_id, need_default) ==
    IF comps = << >> THEN << >>
    ELSE IF Head(comps).vcn_id = vcn_id /\ (need_default => Head(comps).default)
         THEN <<Head(comps)>>
         ELSE FirstMatch(Tail(comps), vcn_id, need_default)

ComponentToImport(kind, vcn_id) ==
    CASE kind = "internet_gateway" -> FirstMatch(existing_internet_gateways, vcn_id, FALSE)
      [] kind = "subnet" -> FirstMatch(existing_subnets, vcn_id, FALSE)
      [] kind = "route_table" -> FirstMatch(existing_route_tables, vcn_id, TRUE)
      [] kind = "security_list" -> FirstMatch(existing_security_lists, vcn_id, TRUE)

\* the kinds for which import_vcn_components issues a terraform import
ComponentImportsIssued(state, vcn_id) ==
    {k \in ComponentKinds :
        /\ ComponentToImport(k, vcn_id) # << >>
        /\ NeedsImport(TerraformStateShow(state, ComponentAddress(k)))}

(***************************************************************************)
(* The control state.                                                      *)
(*   imp.ret       where import_existing_resources returns to              *)
(*   imp.cursor    the item of ImportItems being handled                   *)
(*   imp.imported, imp.failed   its two counters                           *)
(*   run.*         the steps of the current run_terraform_workflow         *)
(*   batch.shown   addresses terraform state show was run for, with the    *)
(*                 exit code                                               *)
(*   batch.imports the terraform import invocations: the address and       *)
(*                 whether it was in state when the command ran            *)
(*   batch.outcomes  the outcome of each item handled, in order            *)
(*   batch.components  the components import_vcn_components ran terraform  *)
(*                 state show for, with their kind                         *)
(***************************************************************************)
ImpIdle == [ret |-> "none", cursor |-> 0, imported |-> 0, failed |-> 0]

RunIdle ==
    [init |-> "none", import |-> "none", validate |-> "none", plan |-> "none",
     confirm |-> "none", apply |-> "none", result |-> "none"]

BatchIdle ==
    [shown |-> {}, imports |-> {}, outcomes |-> << >>, components |-> {},
     result |-> "none"]

NotPlanned == [strategy |-> "none"]

\* Path("variables.tf").exists() is False
AbsentFile == [exists |-> FALSE]

NotValidated == [called |-> FALSE]

\* the planner variables of a specification that does not run the planner
PlannerUnused ==
    /\ SKIP_CONFIG = FALSE
    /\ AUTO_USE_EXISTING = FALSE
    /\ ubuntu_arm_flex_image_ocid = TRUE
    /\ variables_tf = AbsentFile
    /\ ppc = "unused"
    /\ plan_rounds = 0
    /\ planned = NotPlanned
    /\ validation = NotValidated

\* the workflow variables of a specification that does not run the workflow
WorkflowUnused ==
    /\ NON_INTERACTIVE = FALSE
    /\ AUTO_DEPLOY = FALSE
    /\ instance_config = [amd_micro_instance_count |-> 0, arm_flex_instance_count |-> 0]
    /\ tfstate = {}
    /\ tfplan = << >>
    /\ pc = "unused"
    /\ menu_rounds = 0
    /\ imp = ImpIdle
    /\ exitCode = -1
    /\ run = RunIdle
    /\ batch = BatchIdle

(***************************************************************************)
(* SpecInventory: inventory_all_resources against every modelled tenancy   *)
(* and every outcome of its oci_cmd calls, then the quota calculation.     *)
(***************************************************************************)
EmptyInventory ==
    /\ existing_vcns = << >>
    /\ existing_subnets = << >>
    /\ existing_internet_gateways = << >>
    /\ existing_route_tables = << >>
    /\ existing_security_lists = << >>
    /\ existing_amd_instances = << >>
    /\ existing_arm_instances = << >>
    /\ existing_boot_volumes = << >>
    /\ existing_block_volumes = << >>

\* no scan of the provider recorded
ScanUnused == [round |-> 0]

NoTenancy ==
    [amd |-> 0, arm |-> << >>, other |-> 0, vcns |-> 0, net |-> << >>,
     boot |-> << >>, block |-> << >>]

\* the inventory variables of a specification that does not run the inventory
InventoryUnused ==
    /\ tenancy = NoTenancy
    /\ EmptyInventory
    /\ ipc = "unused"
    /\ ociLog = NoOciCalls
    /\ scan = ScanUnused
    /\ available = NoAvailable

InitInventory ==
    /\ maxAttempts = DEFAULT_RETRY_MAX_ATTEMPTS
    /\ baseDelay = DEFAULT_RETRY_BASE_DELAY
    /\ rb = RbIdle
    /\ ap = ApIdle
    /\ tenancy \in Tenancies
    /\ tenancy.vcns = 0 => tenancy.net = << >>
    /\ EmptyInventory
    /\ ipc = "compute"
    /\ ociLog = NoOciCalls
    /\ scan = ScanUnused
    /\ available = NoAvailable
    /\ WorkflowUnused
    /\ PlannerUnused

\* inventory_compute_instances
InventoryComputeInstances ==
    /\ ipc = "compute"
    /\ \E o \in OciOutcomes, d \in [1..Len(tenancy.arm) -> OciOutcomes] :
          LET list == OciCmd("compute instance list", o)
              details == [i \in 1..Len(tenancy.arm) |-> OciCmd("compute instance get", d[i])]
          IN /\ existing_amd_instances' = AmdInstancesFound(tenancy, list)
             /\ existing_arm_instances' = ArmInstancesFound(tenancy, list, details)
             /\ ociLog' = LogOci(ociLog, <<list>> \o (IF list.ok THEN details ELSE << >>))
    /\ ipc' = "networking"
    /\ UNCHANGED <<retryVars, tenancy, available, scan, existing_vcns, existing_subnets,
                   existing_internet_gateways, existing_route_tables,
                   existing_security_lists, existing_boot_volumes,
                   existing_block_volumes, wfVars, planVars>>

\* inventory_networking_resources
InventoryNetworkingResources ==
    /\ ipc = "networking"
    /\ \E o \in OciOutcomes, c \in [ComponentKinds -> OciOutcomes] :
          LET list == OciCmd("network vcn list", o)
              sub == [k \in ComponentKinds |-> OciCmd(k, c[k])]
          IN /\ (list.ok /\ tenancy.vcns > 0) \/ (\A k \in ComponentKinds : c[k] = "ok")
             /\ existing_vcns' = VcnsFound(tenancy, list)
             /\ existing_subnets' = ComponentsFound(tenancy, list, sub["subnet"], "subnet")
             /\ existing_internet_gateways' =
                   ComponentsFound(tenancy, list, sub["internet_gateway"], "internet_gateway")
             /\ existing_route_tables' =
                   ComponentsFound(tenancy, list, sub["route_table"], "route_table")
             /\ existing_security_lists' =
                   ComponentsFound(tenancy, list, sub["security_list"], "security_list")
             /\ ociLog' = LogOci(ociLog, <<list>> \o
                              (IF list.ok /\ tenancy.vcns > 0
                               THEN <<sub["subnet"], sub["internet_gateway"],
                                      sub["route_table"], sub["security_list"]>>
                               ELSE << >>))
    /\ ipc' = "storage"
    /\ UNCHANGED <<retryVars, tenancy, available, scan, existing_amd_instances,
                   existing_arm_instances, existing_boot_volumes,
                   existing_block_volumes, wfVars, planVars>>

\* inventory_storage_resources
InventoryStorageResources ==
    /\ ipc = "storage"
    /\ \E o \in OciOutcomes, b \in OciOutcomes :
          LET boot == OciCmd("bv boot-volume list", o)
              block == OciCmd("bv volume list", b)
          IN /\ existing_boot_volumes' = VolumesFound(tenancy.boot, boot, "boot")
             /\ existing_block_volumes' = VolumesFound(tenancy.block, block, "block")
             /\ ociLog' = LogOci(ociLog, <<boot, block>>)
    /\ ipc' = "inventoried"
    /\ UNCHANGED <<retryVars, tenancy, available, scan, existing_vcns, existing_subnets,
                   existing_internet_gateways, existing_route_tables,
                   existing_security_lists, existing_amd_instances,
                   existing_arm_instances, wfVars, planVars>>

\* available = calculate_available_resources()
CalculateAvailable ==
    /\ ipc = "inventoried"
    /\ available' = [computed |-> TRUE,
                     value |-> CalculateAvailableResources(
                                   existing_amd_instances, existing_arm_instances,
                                   existing_boot_volumes, existing_block_volumes)]
    /\ ipc' = "calculated"
    /\ UNCHANGED <<retryVars, existingVars, tenancy, ociLog, scan, wfVars, planVars>>

NextInventory ==
    \/ InventoryComputeInstances
    \/ InventoryNetworkingResources
    \/ InventoryStorageResources
    \/ CalculateAvailable

SpecInventory == InitInventory /\ [][NextInventory]_vars

(***************************************************************************)
(* C8 (the statement checked against the code): every oci_cmd call of the  *)
(* inventory that fails was invoked max_attempts times, i.e. was retried   *)
(* up to the attempt limit.                                                *)
(***************************************************************************)
C8_FailingInventoryCallsRetried ==
    \A r \in ociLog : ~r.ok => r.invocations = maxAttempts

(***************************************************************************)
(* C10: calculate_available_resources returns, for the inventory it reads, *)
(* amd_instances = 2 - #AMD, arm_ocpus = 4 - total OCPUs, arm_memory =     *)
(* 24 - total memory and storage = 200 - (boot + block sizes), unclamped:  *)
(* below 0 when the use exceeds the limit and 0 when it equals it.         *)
(***************************************************************************)
\* s[1] + ... + s[n]
RECURSIVE TotalUpTo(_, _)
TotalUpTo(s, n) == IF n = 0 THEN 0 ELSE s[n] + TotalUpTo(s, n - 1)

UsedArmOcpus ==
    TotalUpTo([i \in 1..Len(existing_arm_instances) |-> existing_arm_instances[i].ocpus],
              Len(existing_arm_instances))
UsedArmMemory ==
    TotalUpTo([i \in 1..Len(existing_arm_instances) |-> existing_arm_instances[i].memory],
              Len(existing_arm_instances))
UsedStorage ==
    TotalUpTo([i \in 1..Len(existing_boot_volumes) |-> existing_boot_volumes[i].size],
              Len(existing_boot_volumes))
    + TotalUpTo([i \in 1..Len(existing_block_volumes) |-> existing_block_volumes[i].size],
                Len(existing_block_volumes))

C10_HeadroomIsLimitMinusUsed ==
    available.computed =>
        /\ available.value.amd_instances = 2 - Len(existing_amd_instances)
        /\ available.value.arm_ocpus = 4 - UsedArmOcpus
        /\ available.value.arm_memory = 24 - UsedArmMemory
        /\ available.value.storage = 200 - UsedStorage
        /\ Len(existing_amd_instances) > 2 => available.value.amd_instances < 0
        /\ UsedArmOcpus > 4 => available.value.arm_ocpus < 0
        /\ UsedArmMemory > 24 => available.value.arm_memory < 0
        /\ UsedStorage > 200 => available.value.storage < 0
        /\ UsedArmOcpus = 4 => available.value.arm_ocpus = 0
        /\ UsedStorage = 200 => available.value.storage = 0

\* a tenancy over the AMD and ARM limits and exactly at the storage limit
C10_Witness ==
    /\ available.computed
    /\ Len(existing_amd_instances) = 3
    /\ available.value.amd_instances = -1
    /\ available.value.arm_ocpus < 0
    /\ available.value.arm_memory < 0
    /\ UsedStorage = 200
    /\ available.value.storage = 0

(***************************************************************************)
(* SpecRetry: the two retry loops on their own, for every attempt limit    *)
(* and every sequence of outcomes of the retried operation.                *)
(***************************************************************************)
AttemptLimits == (-1)..MaxAttemptsBound

BaseDelays == {1, DEFAULT_RETRY_BASE_DELAY}

InitRetry ==
    /\ maxAttempts \in AttemptLimits
    /\ baseDelay \in BaseDelays
    /\ rb = RbIdle
    /\ ap = ApIdle
    /\ InventoryUnused
    /\ WorkflowUnused
    /\ PlannerUnused

\* retry_with_backoff is called
RetryCall ==
    /\ rb.status = "idle"
    /\ ap.status = "idle"
    /\ rb' = RbStart
    /\ UNCHANGED <<maxAttempts, baseDelay, ap, existingVars, invVars, planVars, wfVars>>

\* the retried operation runs once and returns
RetryAttemptReturns ==
    /\ rb.status = "running"
    /\ RetryLoopGuard(rb.attempt, maxAttempts)
    /\ rb' = RetryIteration(rb, TRUE, << >>, maxAttempts, baseDelay)
    /\ UNCHANGED <<maxAttempts, baseDelay, ap, existingVars, invVars, planVars, wfVars>>

\* the retried operation runs once and raises
RetryAttemptRaises ==
    /\ rb.status = "running"
    /\ RetryLoopGuard(rb.attempt, maxAttempts)
    /\ \E text \in ErrorTexts :
          rb' = RetryIteration(rb, FALSE, text, maxAttempts, baseDelay)
    /\ UNCHANGED <<maxAttempts, baseDelay, ap, existingVars, invVars, planVars, wfVars>>

\* the loop ends without a pass
RetryEnds ==
    /\ rb.status = "running"
    /\ ~RetryLoopGuard(rb.attempt, maxAttempts)
    /\ rb' = RetryFallThrough(rb)
    /\ UNCHANGED <<maxAttempts, baseDelay, ap, existingVars, invVars, planVars, wfVars>>

\* out_of_capacity_auto_apply is called
ApplyCall ==
    /\ ap.status = "idle"
    /\ rb.status = "idle"
    /\ ap' = ApStart
    /\ UNCHANGED <<maxAttempts, baseDelay, rb, existingVars, invVars, planVars, wfVars>>

\* terraform apply runs once and succeeds
ApplyAttemptSucceeds ==
    /\ ap.status = "running"
    /\ ApplyLoopGuard(ap.attempt, maxAttempts)
    /\ ap' = ApplyIteration(ap, 0, << >>, maxAttempts, baseDelay)
    /\ UNCHANGED <<maxAttempts, baseDelay, rb, existingVars, invVars, planVars, wfVars>>

\* terraform apply runs once and fails
ApplyAttemptFails ==
    /\ ap.status = "running"
    /\ ApplyLoopGuard(ap.attempt, maxAttempts)
    /\ \E output \in ErrorTexts :
          ap' = ApplyIteration(ap, 1, output, maxAttempts, baseDelay)
    /\ UNCHANGED <<maxAttempts, baseDelay, rb, existingVars, invVars, planVars, wfVars>>

\* the loop ends without a pass
ApplyEnds ==
    /\ ap.status = "running"
    /\ ~ApplyLoopGuard(ap.attempt, maxAttempts)
    /\ ap' = ApplyFallThrough(ap)
    /\ UNCHANGED <<maxAttempts, baseDelay, rb, existingVars, invVars, planVars, wfVars>>

NextRetry ==
    \/ RetryCall
    \/ RetryAttemptReturns
    \/ RetryAttemptRaises
    \/ RetryEnds
    \/ ApplyCall
    \/ ApplyAttemptSucceeds
    \/ ApplyAttemptFails
    \/ ApplyEnds

SpecRetry == InitRetry /\ [][NextRetry]_vars

(***************************************************************************)
(* C3: for max_attempts = N >= 1 neither loop invokes its operation more   *)
(* than N times; retry_with_backoff ends by raising only after exactly N   *)
(* failed invocations and raises the error of the N-th; a capacity failure *)
(* on every attempt makes out_of_capacity_auto_apply run terraform apply   *)
(* exactly N times, report the N-th capacity failure and return False;     *)
(* both stop at the first success, which is their last invocation.         *)
(***************************************************************************)
AllCapacityFailures(outputs) ==
    \A k \in 1..Len(outputs) : HasCapacitySignal(outputs[k])

RetryableTexts == {TextHostCapacity, TextUpperCapacity, TextCamelCapacity}

C4_RetryOnlyOnCapacity ==
    \A k \in 1..Len(ap.outputs) :
        /\ ap.outputs[k] \notin RetryableTexts =>
              /\ ap.status = "false"
              /\ ap.calls = k
              /\ ap.printed = <<ap.outputs[k]>>
              /\ Len(ap.sleeps) = k - 1
        /\ (ap.outputs[k] \in RetryableTexts /\ k < maxAttempts) =>
              /\ Len(ap.sleeps) >= k
              /\ ap.printed = << >> \/ Len(ap.outputs) > k
              /\ \/ ap.calls > k
                 \/ ap.status = "running" /\ ap.attempt = k + 1

\* a capacity failure was retried and the retry failed on a bad parameter
C4_Witness ==
    /\ ap.outputs = <<TextHostCapacity, TextInvalidShape>>
    /\ ap.status = "false"
    /\ ap.calls = 2

\* base, 2*base, 4*base, ...: the n-th wait, by repeated doubling
RECURSIVE DoubledWait(_, _)
DoubledWait(base, n) == IF n <= 1 THEN base ELSE 2 * DoubledWait(base, n - 1)

\* the waits of one loop: sleeps in order, calls made, whether it has ended
WaitsAreExponential(sleeps, calls, ended) ==
    /\ \A n \in DOMAIN sleeps :
          /\ n < maxAttempts
          /\ sleeps[n] = DoubledWait(baseDelay, n)
    /\ Len(sleeps) = IF ended /\ calls > 0 THEN calls - 1 ELSE calls

\* C12: in retry_with_backoff and in out_of_capacity_auto_apply the wait
\* after failed attempt n (n < max_attempts) is base_delay * 2^(n-1), every
\* failed attempt that another attempt follows is waited for once, and there
\* is no wait after a successful attempt or after the last allowed attempt.
C12_WaitsDoubleAndOnlyBetweenAttempts ==
    /\ WaitsAreExponential(rb.sleeps, rb.calls, rb.status \in {"returned", "raised"})
    /\ WaitsAreExponential(ap.sleeps, ap.calls, ap.status \in {"true", "false"})
    /\ (baseDelay = 15 /\ Len(rb.sleeps) >= 2) =>
          (rb.sleeps[1] = 15 /\ rb.sleeps[2] = 30)
    /\ (baseDelay = 15 /\ Len(ap.sleeps) >= 2) =>
          (ap.sleeps[1] = 15 /\ ap.sleeps[2] = 30)

\* the apply loop waited 15 s and 30 s and then gave up at the last attempt
C12_Witness ==
    /\ baseDelay = 15
    /\ maxAttempts = 3
    /\ ap.status = "false"
    /\ ap.calls = 3
    /\ ap.sleeps = <<15, 30>>

\* retry_with_backoff waited 15 s once and returned at the second attempt
C12_WitnessRetry ==
    /\ baseDelay = 15
    /\ rb.status = "returned"
    /\ rb.calls = 2
    /\ rb.sleeps = <<15>>


(***************************************************************************)
(* SpecWorkflow: main() from Phase 7 on.  The inventory has run, the plan  *)
(* is chosen and the Terraform files are written; terraform_menu drives    *)
(* run_terraform_workflow and import_existing_resources against a working  *)
(* directory whose state an earlier run of the script may have filled.     *)
(***************************************************************************)
WorkflowTenancies ==
    [amd : 0..MaxAmdExisting,
     arm : {<< >>, <<[ocpus |-> 1, memory |-> 6]>>},
     other : {0},
     vcns : {0, 1, 2},
     net : {<< >>, FullNet, TwoVcnNet},
     boot : {<< >>},
     block : {<< >>}]

PlanChoices ==
    [amd_micro_instance_count : 0..MaxAmdExisting,
     arm_flex_instance_count : {0, 1}]

\* what an earlier run may have left in Terraform state
EarlierStates(config) ==
    {{},
     PlannedAddresses(config),
     {ComponentAddress("internet_gateway"), <<"oci_core_instance.amd", 0>>}}

ApplyOutputs == {TextHostCapacity, TextInvalidShape}

\* what the attempts of one terraform import end with: some attempts fail,
\* the next one, if any is left, imports the resource
ImportAttemptResults(max) ==
    {[a \in 1..max |-> IF a <= fails THEN "fails" ELSE last] :
        fails \in 0..max, last \in ImportOutcomes \ {"fails"}}

\* the exit codes of the terraform import calls of import_vcn_components:
\* all succeed, all fail, or a single one fails
ComponentImportResults ==
    {rcs \in [ComponentKinds -> {0, 1}] :
        \/ \A k \in ComponentKinds : rcs[k] = 1
        \/ Cardinality({k \in ComponentKinds : rcs[k] = 1}) <= 1}

InitWorkflow ==
    /\ maxAttempts = MaxWorkflowAttempts
    /\ baseDelay = DEFAULT_RETRY_BASE_DELAY
    /\ rb = RbIdle
    /\ ap = ApIdle
    /\ tenancy \in WorkflowTenancies
    /\ tenancy.vcns = 0 => tenancy.net = << >>
    /\ tenancy.vcns = 2 <=> tenancy.net = TwoVcnNet
    /\ LET ok == OciCmd("list", "ok")
           details == [i \in 1..Len(tenancy.arm) |-> ok]
       IN /\ existing_amd_instances = AmdInstancesFound(tenancy, ok)
          /\ existing_arm_instances = ArmInstancesFound(tenancy, ok, details)
          /\ existing_vcns = VcnsFound(tenancy, ok)
          /\ existing_subnets = ComponentsFound(tenancy, ok, ok, "subnet")
          /\ existing_internet_gateways =
                ComponentsFound(tenancy, ok, ok, "internet_gateway")
          /\ existing_route_tables = ComponentsFound(tenancy, ok, ok, "route_table")
          /\ existing_security_lists =
                ComponentsFound(tenancy, ok, ok, "security_list")
          /\ existing_boot_volumes = VolumesFound(tenancy.boot, ok, "boot")
          /\ existing_block_volumes = VolumesFound(tenancy.block, ok, "block")
    /\ ipc = "calculated"
    /\ ociLog = NoOciCalls
    /\ scan = ScanUnused
    /\ available =
          [computed |-> TRUE,
           value |-> CalculateAvailableResources(
                        existing_amd_instances, existing_arm_instances,
                        existing_boot_volumes, existing_block_volumes)]
    /\ NON_INTERACTIVE \in BOOLEAN
    /\ AUTO_DEPLOY \in BOOLEAN
    /\ instance_config \in PlanChoices
    /\ tfstate \in EarlierStates(instance_config)
    /\ tfplan = << >>
    /\ pc = "menu"
    /\ menu_rounds = 0
    /\ imp = ImpIdle
    /\ exitCode = -1
    /\ run = RunIdle
    /\ batch = BatchIdle
    /\ PlannerUnused

\* if not existing_vcns and not existing_amd_instances and not existing_arm_instances
NothingExisting ==
    /\ existing_vcns = << >>
    /\ existing_amd_instances = << >>
    /\ existing_arm_instances = << >>

\* sys.exit / the end of main
Exit(code) ==
    /\ pc' = "exited"
    /\ exitCode' = code

\* import_existing_resources returns `result`
ImportReturn(result) ==
    /\ batch' = [batch EXCEPT !.result = result]
    /\ pc' = "imp_return"

\* import_existing_resources: one attempt of its terraform init
ImportInitAttempt ==
    /\ pc = "imp_init"
    /\ rb.status = "running"
    /\ RetryLoopGuard(rb.attempt, maxAttempts)
    /\ \E ok \in BOOLEAN :
          rb' = RetryIteration(rb, ok, TextInitError, maxAttempts, baseDelay)
    /\ UNCHANGED <<maxAttempts, baseDelay, ap, existingVars, invVars, planVars, wfVars>>

\* import_existing_resources: init failed after retries: return False
ImportInitFails ==
    /\ pc = "imp_init"
    /\ rb.status = "raised"
    /\ rb' = RbIdle
    /\ ImportReturn("false")
    /\ UNCHANGED <<maxAttempts, baseDelay, ap, existingVars, invVars, planVars,
                   NON_INTERACTIVE, AUTO_DEPLOY, instance_config, tfstate, tfplan,
                   menu_rounds, imp, exitCode, run>>

\* import_existing_resources: imported = 0; failed = 0
ImportInitDone ==
    /\ pc = "imp_init"
    /\ rb.status = "returned"
    /\ rb' = RbIdle
    /\ imp' = [imp EXCEPT !.cursor = 1, !.imported = 0, !.failed = 0]
    /\ pc' = "imp_item"
    /\ UNCHANGED <<maxAttempts, baseDelay, ap, existingVars, invVars, planVars,
                   NON_INTERACTIVE, AUTO_DEPLOY, instance_config, tfstate, tfplan,
                   menu_rounds, exitCode, run, batch>>

\* the VCN block and one pass of the AMD / ARM loop: terraform state show,
\* then "Already in state", or terraform import through
\* run_cmd_with_retries_and_check with the counters, and for the VCN the
\* call of import_vcn_components
ImportItem ==
    /\ pc = "imp_item"
    /\ imp.cursor <= Len(ImportItems)
    /\ \E item \in {ImportItems[imp.cursor]}, results \in ImportAttemptResults(maxAttempts) :
       \E rc \in {TerraformStateShow(tfstate, item.addr)} :
       \E call \in {IF NeedsImport(rc)
                    THEN RetryRun(RbStart, [a \in 1..maxAttempts |-> results[a] # "fails"],
                                  TextInitError, maxAttempts, baseDelay)
                    ELSE RbIdle} :
          LET landed == call.status = "returned"
              silent == landed /\ results[call.calls] = "imported_silently"
              outcome == IF ~NeedsImport(rc) THEN "already"
                         ELSE IF CheckedSuccess(call.status, silent)
                              THEN "imported" ELSE "failed"
              counts == CountOutcome([imported |-> imp.imported,
                                      failed |-> imp.failed], outcome)
              components == outcome = "imported" /\ item.kind = "vcn"
          IN /\ tfstate' = IF landed THEN tfstate \cup {item.addr} ELSE tfstate
             /\ batch' = [batch EXCEPT
                   !.shown = @ \cup {[addr |-> item.addr, rc |-> rc]},
                   !.imports = IF call.calls > 0
                               THEN @ \cup {[addr |-> item.addr,
                                             inState |-> item.addr \in tfstate]}
                               ELSE @,
                   !.outcomes = Append(@, [addr |-> item.addr, outcome |-> outcome])]
             /\ imp' = [imp EXCEPT
                   !.imported = counts.imported,
                   !.failed = counts.failed,
                   !.cursor = IF components THEN @
                              ELSE NextItem(@, outcome, Len(ImportItems))]
             /\ pc' = IF components THEN "imp_components" ELSE "imp_item"
    /\ UNCHANGED <<retryVars, existingVars, invVars, planVars, NON_INTERACTIVE, AUTO_DEPLOY,
                   instance_config, tfplan, menu_rounds, exitCode, run>>

\* import_vcn_components(first_vcn_id): per kind terraform state show, and a
\* single terraform import when the address is not in state (rcs[k] only
\* matters for the kinds whose import is issued)
ImportVcnComponents ==
    /\ pc = "imp_components"
    /\ \E rcs \in ComponentImportResults :
          LET vcn_id == ImportItems[imp.cursor].id
              found == {k \in ComponentKinds : ComponentToImport(k, vcn_id) # << >>}
              issued == ComponentImportsIssued(tfstate, vcn_id)
          IN /\ \A k \in ComponentKinds \ issued : rcs[k] = 0
             /\ batch' = [batch EXCEPT
                   !.shown = @ \cup
                      {[addr |-> ComponentAddress(k),
                        rc |-> TerraformStateShow(tfstate, ComponentAddress(k))] :
                          k \in found},
                   !.imports = @ \cup
                      {[addr |-> ComponentAddress(k),
                        inState |-> ComponentAddress(k) \in tfstate] : k \in issued},
                   !.components = @ \cup
                      {[kind |-> k, component |-> ComponentToImport(k, vcn_id)[1]] :
                          k \in found}]
             /\ tfstate' = tfstate \cup
                   {ComponentAddress(k) : k \in {j \in issued : rcs[j] = 0}}
    /\ imp' = [imp EXCEPT !.cursor = NextItem(@, "imported", Len(ImportItems))]
    /\ pc' = "imp_item"
    /\ UNCHANGED <<retryVars, existingVars, invVars, planVars, NON_INTERACTIVE, AUTO_DEPLOY,
                   instance_config, tfplan, menu_rounds, exitCode, run>>

\* "Import complete: {imported} imported, {failed} failed"; return True
ImportCompletes ==
    /\ pc = "imp_item"
    /\ imp.cursor > Len(ImportItems)
    /\ ImportReturn("true")
    /\ UNCHANGED <<retryVars, existingVars, invVars, planVars, NON_INTERACTIVE, AUTO_DEPLOY,
                   instance_config, tfstate, tfplan, menu_rounds, imp, exitCode, run>>

\* back in the caller: Step 2 of the workflow drops the returned value and
\* goes on to Step 3, the menu goes on to its end
ImportReturns ==
    /\ pc = "imp_return"
    /\ IF imp.ret = "workflow"
       THEN /\ run' = [run EXCEPT !.import = batch.result]
            /\ pc' = "wf_validate"
       ELSE /\ run' = run
            /\ pc' = "menu_after"
    /\ imp' = ImpIdle
    /\ batch' = BatchIdle
    /\ UNCHANGED <<retryVars, existingVars, invVars, planVars, NON_INTERACTIVE, AUTO_DEPLOY,
                   instance_config, tfstate, tfplan, menu_rounds, exitCode>>


(***************************************************************************)
(* run_terraform_workflow().                                               *)
(***************************************************************************)
\* Step 1: one attempt of terraform init -upgrade inside retry_with_backoff
WorkflowInitAttempt ==
    /\ pc = "wf_init"
    /\ rb.status = "running"
    /\ RetryLoopGuard(rb.attempt, maxAttempts)
    /\ \E ok \in BOOLEAN :
          rb' = RetryIteration(rb, ok, TextInitError, maxAttempts, baseDelay)
    /\ UNCHANGED <<maxAttempts, baseDelay, ap, existingVars, invVars, planVars, wfVars>>

\* Step 1 failed after retries: return False
WorkflowInitFails ==
    /\ pc = "wf_init"
    /\ rb.status = "raised"
    /\ rb' = RbIdle
    /\ run' = [run EXCEPT !.init = "failed", !.result = "false"]
    /\ pc' = "wf_return"
    /\ UNCHANGED <<maxAttempts, baseDelay, ap, existingVars, invVars, planVars,
                   NON_INTERACTIVE, AUTO_DEPLOY, instance_config, tfstate, tfplan,
                   menu_rounds, imp, exitCode, batch>>

\* Step 2: import_existing_resources() when anything exists
WorkflowImportStep ==
    /\ pc = "wf_init"
    /\ rb.status = "returned"
    /\ IF NothingExisting
       THEN /\ rb' = RbIdle
            /\ run' = [run EXCEPT !.init = "ok", !.import = "skipped"]
            /\ imp' = imp
            /\ pc' = "wf_validate"
       ELSE /\ rb' = RbStart
            /\ run' = [run EXCEPT !.init = "ok", !.import = "called"]
            /\ imp' = [ImpIdle EXCEPT !.ret = "workflow"]
            /\ pc' = "imp_init"
    /\ batch' = BatchIdle
    /\ UNCHANGED <<maxAttempts, baseDelay, ap, existingVars, invVars, planVars,
                   NON_INTERACTIVE, AUTO_DEPLOY, instance_config, tfstate, tfplan,
                   menu_rounds, exitCode>>

\* Step 3: terraform validate
WorkflowValidate ==
    /\ pc = "wf_validate"
    /\ \E rc \in {0, 1} :
          IF rc # 0
          THEN /\ run' = [run EXCEPT !.validate = "failed", !.result = "false"]
               /\ pc' = "wf_return"
          ELSE /\ run' = [run EXCEPT !.validate = "ok"]
               /\ pc' = "wf_plan"
    /\ UNCHANGED <<retryVars, existingVars, invVars, planVars, NON_INTERACTIVE, AUTO_DEPLOY,
                   instance_config, tfstate, tfplan, menu_rounds, imp, exitCode,
                   batch>>

\* if AUTO_DEPLOY or NON_INTERACTIVE: apply_choice = "Y"
AutoApproveAlways(auto_deploy, non_interactive) == TRUE

AutoApprove(auto_deploy, non_interactive) == auto_deploy \/ non_interactive

\* Step 4: terraform plan -out=tfplan, and the head of Step 5
WorkflowPlan ==
    /\ pc = "wf_plan"
    /\ \E rc \in {0, 1} :
          IF rc # 0
          THEN /\ run' = [run EXCEPT !.plan = "failed", !.result = "false"]
               /\ pc' = "wf_return"
               /\ UNCHANGED <<tfplan, ap>>
          ELSE /\ tfplan' = <<instance_config>>
               /\ IF AutoApprove(AUTO_DEPLOY, NON_INTERACTIVE)
                  THEN /\ run' = [run EXCEPT !.plan = "ok", !.confirm = "auto"]
                       /\ ap' = ApStart
                       /\ pc' = "wf_apply"
                  ELSE /\ run' = [run EXCEPT !.plan = "ok"]
                       /\ ap' = ap
                       /\ pc' = "wf_confirm"
    /\ UNCHANGED <<maxAttempts, baseDelay, rb, existingVars, invVars, planVars,
                   NON_INTERACTIVE, AUTO_DEPLOY, instance_config, tfstate,
                   menu_rounds, imp, exitCode, batch>>

\* Step 5: Confirm.ask("Apply this plan?")
WorkflowConfirm ==
    /\ pc = "wf_confirm"
    /\ \E answer \in BOOLEAN :
          IF answer
          THEN /\ run' = [run EXCEPT !.confirm = "yes"]
               /\ ap' = ApStart
               /\ pc' = "wf_apply"
          ELSE /\ run' = [run EXCEPT !.confirm = "no", !.result = "true"]
               /\ ap' = ap
               /\ pc' = "wf_return"
    /\ UNCHANGED <<maxAttempts, baseDelay, rb, existingVars, invVars, planVars,
                   NON_INTERACTIVE, AUTO_DEPLOY, instance_config, tfstate, tfplan,
                   menu_rounds, imp, exitCode, batch>>

\* out_of_capacity_auto_apply: one terraform apply tfplan (the output of an
\* apply that exits 0 is not looked at)
WorkflowApplyAttempt ==
    /\ pc = "wf_apply"
    /\ ap.status = "running"
    /\ ApplyLoopGuard(ap.attempt, maxAttempts)
    /\ \E rc \in {0, 1}, output \in ApplyOutputs :
          /\ rc = 0 => output = TextHostCapacity
          /\ ap' = ApplyIteration(ap, rc, output, maxAttempts, baseDelay)
          /\ tfstate' = IF rc = 0 /\ tfplan # << >>
                        THEN PlannedAddresses(tfplan[1]) ELSE tfstate
    /\ UNCHANGED <<maxAttempts, baseDelay, rb, existingVars, invVars, planVars,
                   NON_INTERACTIVE, AUTO_DEPLOY, instance_config, tfplan, pc,
                   menu_rounds, imp, exitCode, run, batch>>

\* the plan file after a successful apply: if tfplan.exists(): tfplan.unlink()
WorkflowApplyEnds ==
    /\ pc = "wf_apply"
    /\ ap.status \in {"true", "false"}
    /\ IF ap.status = "true"
       THEN /\ tfplan' = << >>
            /\ run' = [run EXCEPT !.apply = "true", !.result = "true"]
       ELSE /\ tfplan' = tfplan
            /\ run' = [run EXCEPT !.apply = "false", !.result = "false"]
    /\ ap' = ApIdle
    /\ pc' = "wf_return"
    /\ UNCHANGED <<maxAttempts, baseDelay, rb, existingVars, invVars, planVars,
                   NON_INTERACTIVE, AUTO_DEPLOY, instance_config, tfstate,
                   menu_rounds, imp, exitCode, batch>>

(***************************************************************************)
(* terraform_menu() and the loop of main() around it.                      *)
(***************************************************************************)
\* the user can still take a menu option
MayChoose ==
    /\ pc = "menu"
    /\ menu_rounds < MaxMenuRounds

Interactive == ~(AUTO_DEPLOY \/ NON_INTERACTIVE)

\* choice 1 (the only choice when AUTO_DEPLOY or NON_INTERACTIVE)
MenuFullWorkflow ==
    /\ MayChoose
    /\ menu_rounds' = menu_rounds + 1
    /\ run' = RunIdle
    /\ rb' = RbStart
    /\ pc' = "wf_init"
    /\ UNCHANGED <<maxAttempts, baseDelay, ap, existingVars, invVars, planVars,
                   NON_INTERACTIVE, AUTO_DEPLOY, instance_config, tfstate, tfplan,
                   imp, exitCode, batch>>

\* if run_terraform_workflow(): if AUTO_DEPLOY: return True
MenuWorkflowReturns ==
    /\ pc = "wf_return"
    /\ IF run.result = "true" /\ AUTO_DEPLOY
       THEN Exit(0)
       ELSE /\ pc' = "menu_after"
            /\ exitCode' = exitCode
    /\ UNCHANGED <<retryVars, existingVars, invVars, planVars, NON_INTERACTIVE, AUTO_DEPLOY,
                   instance_config, tfstate, tfplan, menu_rounds, imp, run, batch>>

\* choice 2: init and plan, nothing written; choice 5: state list and output
MenuPlanOnly ==
    /\ MayChoose
    /\ Interactive
    /\ menu_rounds' = menu_rounds + 1
    /\ pc' = "menu_after"
    /\ UNCHANGED <<retryVars, existingVars, invVars, planVars, NON_INTERACTIVE, AUTO_DEPLOY,
                   instance_config, tfstate, tfplan, imp, exitCode, run, batch>>

MenuShowState ==
    /\ MayChoose
    /\ Interactive
    /\ menu_rounds' = menu_rounds + 1
    /\ pc' = "menu_after"
    /\ UNCHANGED <<retryVars, existingVars, invVars, planVars, NON_INTERACTIVE, AUTO_DEPLOY,
                   instance_config, tfstate, tfplan, imp, exitCode, run, batch>>

\* choice 3: terraform apply tfplan when the file exists
MenuApplyExistingPlan ==
    /\ MayChoose
    /\ Interactive
    /\ menu_rounds' = menu_rounds + 1
    /\ \E rc \in {0, 1} :
          tfstate' = IF tfplan # << >> /\ rc = 0
                     THEN PlannedAddresses(tfplan[1]) ELSE tfstate
    /\ pc' = "menu_after"
    /\ UNCHANGED <<retryVars, existingVars, invVars, planVars, NON_INTERACTIVE, AUTO_DEPLOY,
                   instance_config, tfplan, imp, exitCode, run, batch>>

\* choice 4: import_existing_resources()
MenuImport ==
    /\ MayChoose
    /\ Interactive
    /\ menu_rounds' = menu_rounds + 1
    /\ IF NothingExisting
       THEN /\ batch' = [BatchIdle EXCEPT !.result = "true"]
            /\ imp' = imp
            /\ rb' = rb
            /\ pc' = "menu_after"
       ELSE /\ batch' = BatchIdle
            /\ imp' = [ImpIdle EXCEPT !.ret = "menu"]
            /\ rb' = RbStart
            /\ pc' = "imp_init"
    /\ UNCHANGED <<maxAttempts, baseDelay, ap, existingVars, invVars, planVars,
                   NON_INTERACTIVE, AUTO_DEPLOY, instance_config, tfstate, tfplan,
                   exitCode, run>>

\* choice 6: terraform destroy once confirmed
MenuDestroy ==
    /\ MayChoose
    /\ Interactive
    /\ menu_rounds' = menu_rounds + 1
    /\ \E confirmed \in BOOLEAN, rc \in {0, 1} :
          tfstate' = IF confirmed /\ rc = 0 THEN {} ELSE tfstate
    /\ pc' = "menu_after"
    /\ UNCHANGED <<retryVars, existingVars, invVars, planVars, NON_INTERACTIVE, AUTO_DEPLOY,
                   instance_config, tfplan, imp, exitCode, run, batch>>

\* choice 7: return False; main: prompt_configuration(), create_terraform_files()
MenuReconfigure ==
    /\ MayChoose
    /\ Interactive
    /\ menu_rounds' = menu_rounds + 1
    /\ instance_config' \in PlanChoices
    /\ UNCHANGED <<retryVars, existingVars, invVars, planVars, NON_INTERACTIVE, AUTO_DEPLOY,
                   tfstate, tfplan, pc, imp, exitCode, run, batch>>

\* choice 8: return True; main reports SETUP COMPLETE
MenuExit ==
    /\ pc = "menu"
    /\ Interactive
    /\ Exit(0)
    /\ UNCHANGED <<retryVars, existingVars, invVars, planVars, NON_INTERACTIVE, AUTO_DEPLOY,
                   instance_config, tfstate, tfplan, menu_rounds, imp, run, batch>>

\* if NON_INTERACTIVE: return True, else input("Press Enter to continue...")
MenuAfterChoice ==
    /\ pc = "menu_after"
    /\ IF NON_INTERACTIVE
       THEN /\ Exit(0)
            /\ UNCHANGED <<imp, run, batch>>
       ELSE /\ pc' = "menu"
            /\ exitCode' = exitCode
            /\ imp' = ImpIdle
            /\ run' = RunIdle
            /\ batch' = BatchIdle
    /\ UNCHANGED <<retryVars, existingVars, invVars, planVars, NON_INTERACTIVE, AUTO_DEPLOY,
                   instance_config, tfstate, tfplan, menu_rounds>>

\* KeyboardInterrupt at a prompt: "Interrupted by user", sys.exit(1)
Interrupt ==
    /\ \/ pc = "menu" /\ Interactive
       \/ pc = "wf_confirm"
       \/ pc = "menu_after" /\ ~NON_INTERACTIVE
    /\ Exit(1)
    /\ UNCHANGED <<retryVars, existingVars, invVars, planVars, NON_INTERACTIVE, AUTO_DEPLOY,
                   instance_config, tfstate, tfplan, menu_rounds, imp, run, batch>>

NextWorkflow ==
    \/ MenuFullWorkflow
    \/ WorkflowInitAttempt
    \/ WorkflowInitFails
    \/ WorkflowImportStep
    \/ ImportInitAttempt
    \/ ImportInitFails
    \/ ImportInitDone
    \/ ImportItem
    \/ ImportVcnComponents
    \/ ImportCompletes
    \/ ImportReturns
    \/ WorkflowValidate
    \/ WorkflowPlan
    \/ WorkflowConfirm
    \/ WorkflowApplyAttempt
    \/ WorkflowApplyEnds
    \/ MenuWorkflowReturns
    \/ MenuPlanOnly
    \/ MenuApplyExistingPlan
    \/ MenuImport
    \/ MenuShowState
    \/ MenuDestroy
    \/ MenuReconfigure
    \/ MenuExit
    \/ MenuAfterChoice
    \/ Interrupt

SpecWorkflow == InitWorkflow /\ [][NextWorkflow]_vars


(***************************************************************************)
(* Properties of the workflow, checked under SpecWorkflow.                 *)
(***************************************************************************)
\* the addresses of the existing resources the plan retains
RetainedAddresses ==
    (IF existing_vcns # << >> THEN {VcnAddress} ELSE {})
    \cup {<<"oci_core_instance.amd", i>> :
             i \in 0..(Min(Len(existing_amd_instances),
                           instance_config.amd_micro_instance_count) - 1)}
    \cup {<<"oci_core_instance.arm", i>> :
             i \in 0..(Min(Len(existing_arm_instances),
                           instance_config.arm_flex_instance_count) - 1)}

ApplyBeingInvoked == pc = "wf_apply" /\ ap.status = "running"

\* C1: whenever run_terraform_workflow invokes terraform apply, the first
\* existing VCN and every existing AMD / ARM instance whose index is below
\* the plan's count is recorded in Terraform state at its address.
C1_RetainedResourcesInStateAtApply ==
    ApplyBeingInvoked => RetainedAddresses \subseteq tfstate

\* C2: the steps of run_terraform_workflow run in the order init, import,
\* validate, plan, confirmation, apply, and a step runs only when every
\* step before it succeeded; in particular nothing runs after an import
\* step that returned False.
C2_EachStepNeedsThePrecedingOnes ==
    /\ (pc \in {"imp_init", "imp_item", "imp_components", "imp_return"}
          /\ imp.ret = "workflow") => run.init = "ok"
    /\ pc \in {"wf_validate", "wf_plan", "wf_confirm", "wf_apply"} =>
          /\ run.init = "ok"
          /\ run.import \in {"skipped", "true"}
    /\ pc \in {"wf_plan", "wf_confirm", "wf_apply"} => run.validate = "ok"
    /\ pc \in {"wf_confirm", "wf_apply"} => run.plan = "ok"
    /\ pc = "wf_apply" => run.confirm \in {"auto", "yes"}

\* C5: terraform import is only ever run for an address that terraform
\* state show has just found absent from state, and an address found present
\* (the VCN, an instance slot or a VCN component) gets no import call.
C5_ImportOnlyWhenAbsentFromState ==
    /\ \A c \in batch.imports :
          /\ ~c.inState
          /\ [addr |-> c.addr, rc |-> 1] \in batch.shown
    /\ \A sh \in batch.shown :
          sh.rc = 0 => \A c \in batch.imports : c.addr # sh.addr
    /\ \A k \in DOMAIN batch.outcomes :
          batch.outcomes[k].outcome = "already" <=>
             [addr |-> batch.outcomes[k].addr, rc |-> 0] \in batch.shown

\* a batch in which the VCN was imported, one of its components was found in
\* state and an instance slot was found in state
C5_Witness ==
    /\ pc = "imp_return"
    /\ \E c \in batch.imports : c.addr = VcnAddress
    /\ \E k \in ComponentKinds :
          [addr |-> ComponentAddress(k), rc |-> 0] \in batch.shown
    /\ \E k \in DOMAIN batch.outcomes :
          /\ batch.outcomes[k].outcome = "already"
          /\ batch.outcomes[k].addr[1] = "oci_core_instance.amd"

OutcomesOf(kind) ==
    {k \in DOMAIN batch.outcomes : batch.outcomes[k].outcome = kind}

\* C6: when import_existing_resources has gone through its batch, every
\* retained resource was handled exactly once and ended as already in state,
\* imported or failed, whatever failed before it, and the two counters
\* equal the numbers of resources that ended imported and failed.
C6_EveryRetainedResourceHandledOnce ==
    (pc = "imp_return" /\ batch.result = "true") =>
       /\ {batch.outcomes[k].addr : k \in DOMAIN batch.outcomes} = RetainedAddresses
       /\ Len(batch.outcomes) = Cardinality(RetainedAddresses)
       /\ \A k \in DOMAIN batch.outcomes :
             batch.outcomes[k].outcome \in {"already", "imported", "failed"}
       /\ imp.imported = Cardinality(OutcomesOf("imported"))
       /\ imp.failed = Cardinality(OutcomesOf("failed"))

\* a batch whose first resource failed and which then found one resource in
\* state and imported another
C6_Witness ==
    /\ pc = "imp_return"
    /\ batch.result = "true"
    /\ Len(batch.outcomes) >= 3
    /\ batch.outcomes[1].outcome = "failed"
    /\ OutcomesOf("already") # {}
    /\ \E k \in OutcomesOf("imported") : k > 1

\* C7: the process exits with code 1 when the apply step of the workflow
\* failed, in every mode, and with code 0 only when it did not.
C7_ExitCodeOneAfterFailedApply ==
    (pc = "exited" /\ run.apply = "false") => exitCode = 1

\* C9: terraform apply is invoked by the workflow only after the plan was
\* written in this run and AUTO_DEPLOY or NON_INTERACTIVE is set or the user
\* confirmed; after a decline apply is not invoked and the plan file stays.
C9_ApplyGate ==
    /\ (ap.status # "idle" \/ run.apply # "none") =>
          /\ run.plan = "ok"
          /\ AUTO_DEPLOY \/ NON_INTERACTIVE \/ run.confirm = "yes"
    /\ ap.status = "running" => tfplan # << >>
    /\ run.confirm = "no" =>
          /\ ap.status = "idle"
          /\ run.apply = "none"
          /\ tfplan # << >>

\* C9, the plan file: it is deleted only by the step that ends an apply
\* which succeeded.
C9_PlanDeletedOnlyAfterSuccessfulApply ==
    (tfplan # << >> /\ tfplan' = << >>) =>
       (pc = "wf_apply" /\ ap.status = "true" /\ run'.apply = "true")

\* C9: the gate on apply and the deletion of the plan file together.
C9_ApplyOnlyAfterPlanAndApproval ==
    [](C9_ApplyGate) /\ [][C9_PlanDeletedOnlyAfterSuccessfulApply]_vars

\* the user confirmed, apply succeeded and the plan file is gone
C9_Witness ==
    /\ pc = "wf_return"
    /\ run.confirm = "yes"
    /\ run.apply = "true"
    /\ tfplan = << >>


(***************************************************************************)
(* FREE TIER LIMIT VALIDATION and the configuration planner.               *)
(***************************************************************************)
\* validate_proposed_config: the dimensions it reports, in the order of its
\* four tests, and what it returns
ExceededFirstOnly(avail, proposed) ==
    IF proposed.amd > avail.amd_instances THEN <<"amd_instances">>
    ELSE IF proposed.arm_ocpus > avail.arm_ocpus THEN <<"arm_ocpus">>
    ELSE IF proposed.arm_memory > avail.arm_memory THEN <<"arm_memory">>
    ELSE IF proposed.storage > avail.storage THEN <<"storage">>
    ELSE << >>

Exceeded(avail, proposed) ==
    (IF proposed.amd > avail.amd_instances THEN <<"amd_instances">> ELSE << >>)
    \o (IF proposed.arm_ocpus > avail.arm_ocpus THEN <<"arm_ocpus">> ELSE << >>)
    \o (IF proposed.arm_memory > avail.arm_memory THEN <<"arm_memory">> ELSE << >>)
    \o (IF proposed.storage > avail.storage THEN <<"storage">> ELSE << >>)

ValidateProposedConfig(avail, proposed) ==
    LET reported == Exceeded(avail, proposed)
    IN [called |-> TRUE,
        proposed |-> proposed,
        reported |-> reported,
        errors |-> Len(reported),
        result |-> (Len(reported) = 0)]

\* class InstanceConfig: the defaults of its fields
DefaultInstanceConfig ==
    [amd_micro_instance_count |-> 0,
     amd_micro_boot_volume_size_gb |-> 50,
     arm_flex_instance_count |-> 0,
     arm_flex_ocpus_per_instance |-> << >>,
     arm_flex_memory_per_instance |-> << >>,
     arm_flex_boot_volume_size_gb |-> << >>,
     arm_flex_block_volumes |-> << >>,
     amd_micro_hostnames |-> << >>,
     arm_flex_hostnames |-> << >>]

\* f"amd-instance-{i}" and f"arm-instance-{i}"
AmdHostname(i) == <<"a", "m", "d", "-", "i", "n", "s", "t", "a", "n", "c", "e", "-">> \o Str(i)

ArmHostname(i) == <<"a", "r", "m", "-", "i", "n", "s", "t", "a", "n", "c", "e", "-">> \o Str(i)

\* [inst.name for inst in insts.values()] and the like
NamesOf(insts) == [i \in 1..Len(insts) |-> insts[i].name]

OcpusOf(insts) == [i \in 1..Len(insts) |-> insts[i].ocpus]

MemoryOf(insts) == [i \in 1..Len(insts) |-> insts[i].memory]

\* [value] * n
Repeat(value, n) == [i \in 1..n |-> value]

\* the default plan of configure_from_existing_instances
DefaultPlanOf(cfg) ==
    [cfg EXCEPT !.amd_micro_instance_count = 0,
                !.arm_flex_instance_count = 1,
                !.arm_flex_ocpus_per_instance = <<4>>,
                !.arm_flex_memory_per_instance = <<24>>,
                !.arm_flex_boot_volume_size_gb = <<200>>,
                !.arm_flex_hostnames = <<ArmHostname(1)>>,
                !.arm_flex_block_volumes = <<0>>]

\* configure_from_existing_instances(): the default plan whenever either
\* kind of instance is missing
ConfigureFromExistingInstancesEitherEmpty(cfg, amd, arm) ==
    LET mirrored ==
           [cfg EXCEPT !.amd_micro_instance_count = Len(amd),
                       !.amd_micro_hostnames = NamesOf(amd),
                       !.arm_flex_instance_count = Len(arm),
                       !.arm_flex_hostnames = NamesOf(arm),
                       !.arm_flex_ocpus_per_instance = OcpusOf(arm),
                       !.arm_flex_memory_per_instance = MemoryOf(arm),
                       !.arm_flex_boot_volume_size_gb = Repeat(50, Len(arm)),
                       !.arm_flex_block_volumes = Repeat(0, Len(arm))]
        chosen == IF mirrored.amd_micro_instance_count = 0
                     \/ mirrored.arm_flex_instance_count = 0
                  THEN DefaultPlanOf(mirrored) ELSE mirrored
    IN [chosen EXCEPT !.amd_micro_boot_volume_size_gb = 50]

\* configure_from_existing_instances()
ConfigureFromExistingInstances(cfg, amd, arm) ==
    LET mirrored ==
           [cfg EXCEPT !.amd_micro_instance_count = Len(amd),
                       !.amd_micro_hostnames = NamesOf(amd),
                       !.arm_flex_instance_count = Len(arm),
                       !.arm_flex_hostnames = NamesOf(arm),
                       !.arm_flex_ocpus_per_instance = OcpusOf(arm),
                       !.arm_flex_memory_per_instance = MemoryOf(arm),
                       !.arm_flex_boot_volume_size_gb = Repeat(50, Len(arm)),
                       !.arm_flex_block_volumes = Repeat(0, Len(arm))]
        chosen == IF mirrored.amd_micro_instance_count = 0
                     /\ mirrored.arm_flex_instance_count = 0
                  THEN DefaultPlanOf(mirrored) ELSE mirrored
    IN [chosen EXCEPT !.amd_micro_boot_volume_size_gb = 50]

\* the boot volume of the single ARM instance of the maximum plan
MaximumArmBootVolumeUnfloored(avail, amd_count, amd_boot) ==
    avail.storage - amd_count * amd_boot

MaximumArmBootVolume(avail, amd_count, amd_boot) ==
    LET used_by_amd == amd_count * amd_boot
        remaining_storage == avail.storage - used_by_amd
    IN IF remaining_storage < FREE_TIER_MIN_BOOT_VOLUME_GB
       THEN FREE_TIER_MIN_BOOT_VOLUME_GB ELSE remaining_storage

\* configure_maximum_free_tier(); image: ubuntu_arm_flex_image_ocid is set
ConfigureMaximumFreeTier(cfg, avail, image) ==
    LET amd == [cfg EXCEPT
                   !.amd_micro_instance_count = avail.amd_instances,
                   !.amd_micro_boot_volume_size_gb = 50,
                   !.amd_micro_hostnames =
                       [i \in 1..avail.amd_instances |-> AmdHostname(i)]]
    IN IF image /\ avail.arm_ocpus > 0
       THEN [amd EXCEPT
                !.arm_flex_instance_count = 1,
                !.arm_flex_ocpus_per_instance = <<avail.arm_ocpus>>,
                !.arm_flex_memory_per_instance = <<avail.arm_memory>>,
                !.arm_flex_boot_volume_size_gb =
                    <<MaximumArmBootVolume(avail, amd.amd_micro_instance_count,
                                           amd.amd_micro_boot_volume_size_gb)>>,
                !.arm_flex_hostnames = <<ArmHostname(1)>>,
                !.arm_flex_block_volumes = <<0>>]
       ELSE [amd EXCEPT
                !.arm_flex_instance_count = 0,
                !.arm_flex_ocpus_per_instance = << >>,
                !.arm_flex_memory_per_instance = << >>,
                !.arm_flex_boot_volume_size_gb = << >>,
                !.arm_flex_hostnames = << >>,
                !.arm_flex_block_volumes = << >>]

(***************************************************************************)
(* variables.tf.  The file is the text to the right of "name = " on each   *)
(* of the eight lines load_existing_config looks for; the other lines of   *)
(* the file match none of its patterns.                                    *)
(***************************************************************************)
\* ", ".join(items)
RECURSIVE JoinComma(_)
JoinComma(items) ==
    IF Len(items) = 0 THEN << >>
    ELSE IF Len(items) = 1 THEN items[1]
    ELSE items[1] \o <<",", " ">> \o JoinComma(Tail(items))

\* "[" + ", ".join(str(x) for x in values) + "]"
RenderNumbers(values) ==
    <<"[">> \o JoinComma([i \in 1..Len(values) |-> Str(values[i])]) \o <<"]">>

\* "[" + ", ".join(f'"{h}"' for h in names) + "]"
RenderHostnames(names) ==
    <<"[">> \o JoinComma([i \in 1..Len(names) |-> <<"\"">> \o names[i] \o <<"\"">>])
    \o <<"]">>

\* create_terraform_variables(): the lines of locals that carry the plan
CreateTerraformVariables(cfg) ==
    [exists |-> TRUE,
     amd_micro_instance_count |-> Str(cfg.amd_micro_instance_count),
     amd_micro_boot_volume_size_gb |-> Str(cfg.amd_micro_boot_volume_size_gb),
     amd_micro_hostnames |-> RenderHostnames(cfg.amd_micro_hostnames),
     arm_flex_instance_count |-> Str(cfg.arm_flex_instance_count),
     arm_flex_ocpus_per_instance |-> RenderNumbers(cfg.arm_flex_ocpus_per_instance),
     arm_flex_memory_per_instance |-> RenderNumbers(cfg.arm_flex_memory_per_instance),
     arm_flex_boot_volume_size_gb |-> RenderNumbers(cfg.arm_flex_boot_volume_size_gb),
     arm_flex_hostnames |-> RenderHostnames(cfg.arm_flex_hostnames),
     plan |-> cfg]

IsDigitChar(c) == \E d \in DOMAIN DigitChars : DigitChars[d] = c

DigitValue(c) == (CHOOSE d \in DOMAIN DigitChars : DigitChars[d] = c) - 1

\* (\d+): the digits a text starts with
RECURSIVE LeadingDigits(_)
LeadingDigits(text) ==
    IF Len(text) = 0 \/ ~IsDigitChar(text[1]) THEN << >>
    ELSE <<text[1]>> \o LeadingDigits(Tail(text))

\* int(digits)
RECURSIVE IntOf(_)
IntOf(digits) ==
    IF Len(digits) = 0 THEN 0
    ELSE 10 * IntOf(SubSeq(digits, 1, Len(digits) - 1))
         + DigitValue(digits[Len(digits)])

\* int(m.group(1)) if m else default, for the pattern name\s*=\s*(\d+)
LoadCount(text, default) ==
    IF LeadingDigits(text) = << >> THEN default ELSE IntOf(LeadingDigits(text))

\* x.isdigit()
IsDigitText(text) ==
    Len(text) > 0 /\ \A i \in DOMAIN text : IsDigitChar(text[i])

\* the position of the first "]" of a text, 0 when it has none
RECURSIVE FirstBracket(_, _)
FirstBracket(text, from) ==
    IF from > Len(text) THEN 0
    ELSE IF text[from] = "]" THEN from
    ELSE FirstBracket(text, from + 1)

\* \[([^\]]+)\]: group(1), or no match (<< >>) when the brackets are empty
BracketGroup(text) ==
    LET close == IF Len(text) > 0 /\ text[1] = "[" THEN FirstBracket(text, 2) ELSE 0
    IN IF close > 2 THEN <<SubSeq(text, 2, close - 1)>> ELSE << >>

\* text.split(",")
RECURSIVE SplitComma(_, _)
SplitComma(text, piece) ==
    IF Len(text) = 0 THEN <<piece>>
    ELSE IF text[1] = "," THEN <<piece>> \o SplitComma(Tail(text), << >>)
    ELSE SplitComma(Tail(text), Append(piece, text[1]))

\* text.strip(chars)
RECURSIVE StripLeft(_, _)
StripLeft(text, chars) ==
    IF Len(text) > 0 /\ text[1] \in chars THEN StripLeft(Tail(text), chars)
    ELSE text

RECURSIVE StripRight(_, _)
StripRight(text, chars) ==
    IF Len(text) > 0 /\ text[Len(text)] \in chars
    THEN StripRight(SubSeq(text, 1, Len(text) - 1), chars)
    ELSE text

Strip(text, chars) == StripRight(StripLeft(text, chars), chars)

SelectDigitTexts(pieces) == SelectSeq(pieces, IsDigitText)

\* [int(x.strip()) for x in group.split(",") if x.strip().isdigit()]
LoadNumbers(group) ==
    LET pieces == SplitComma(group, << >>)
        stripped == [i \in 1..Len(pieces) |-> Strip(pieces[i], {" "})]
        kept == SelectDigitTexts(stripped)
    IN [i \in 1..Len(kept) |-> IntOf(kept[i])]

\* [x.strip().strip('"').strip("'") for x in group.split(",")]
LoadHostnames(group) ==
    LET pieces == SplitComma(group, << >>)
    IN [i \in 1..Len(pieces) |->
          Strip(Strip(Strip(pieces[i], {" "}), {"\""}), {"'"})]

\* the list a bracket pattern assigns; the field keeps its value when the
\* pattern does not match
LoadNumberField(text, kept) ==
    IF BracketGroup(text) = << >> THEN kept ELSE LoadNumbers(BracketGroup(text)[1])

LoadHostnameField(text, kept) ==
    IF BracketGroup(text) = << >> THEN kept ELSE LoadHostnames(BracketGroup(text)[1])

\* load_existing_config(): what it returns and the plan it leaves
LoadExistingConfig(cfg, file) ==
    IF ~file.exists THEN [found |-> FALSE, config |-> cfg]
    ELSE [found |-> TRUE,
          config |->
             [cfg EXCEPT
                 !.amd_micro_instance_count =
                     LoadCount(file.amd_micro_instance_count, 0),
                 !.amd_micro_boot_volume_size_gb =
                     LoadCount(file.amd_micro_boot_volume_size_gb, 50),
                 !.arm_flex_instance_count =
                     LoadCount(file.arm_flex_instance_count, 0),
                 !.arm_flex_ocpus_per_instance =
                     LoadNumberField(file.arm_flex_ocpus_per_instance, @),
                 !.arm_flex_memory_per_instance =
                     LoadNumberField(file.arm_flex_memory_per_instance, @),
                 !.arm_flex_boot_volume_size_gb =
                     LoadNumberField(file.arm_flex_boot_volume_size_gb, @),
                 !.amd_micro_hostnames =
                     LoadHostnameField(file.amd_micro_hostnames, @),
                 !.arm_flex_hostnames =
                     LoadHostnameField(file.arm_flex_hostnames, @)]]

(***************************************************************************)
(* configure_custom_instances().  answers: what the user types at the      *)
(* prompts: amd, amd_boot, arm, and for ARM instance i arm_ocpus[i],       *)
(* arm_memory[i], arm_boot[i]; the proposed hostnames are accepted.        *)
(***************************************************************************)
\* IntPrompt.ask(..., default=d): << >> when the user accepts the default,
\* <<n>> when the user types n
Answered(answer, default) == IF answer = << >> THEN default ELSE answer[1]

\* remaining_ocpus -= ocpus, remaining_memory -= memory
RemainingUnchanged(remaining, assigned) == remaining

RemainingAfter(remaining, assigned) == remaining - assigned

\* the ARM instances asked for one after the other, from instance i on
RECURSIVE CustomArmInstances(_, _, _, _, _, _)
CustomArmInstances(cfg, answers, i, count, remaining_ocpus, remaining_memory) ==
    IF i > count THEN cfg
    ELSE LET ocpus == Max(1, Min(Answered(answers.arm_ocpus[i], remaining_ocpus),
                                 remaining_ocpus))
             max_memory == Min(ocpus * 6, remaining_memory)
             memory == Max(1, Min(Answered(answers.arm_memory[i], max_memory),
                                  max_memory))
             boot == Max(50, Min(answers.arm_boot[i], 200))
         IN CustomArmInstances(
               [cfg EXCEPT
                   !.arm_flex_hostnames = Append(@, ArmHostname(i)),
                   !.arm_flex_ocpus_per_instance = Append(@, ocpus),
                   !.arm_flex_memory_per_instance = Append(@, memory),
                   !.arm_flex_boot_volume_size_gb = Append(@, boot),
                   !.arm_flex_block_volumes = Append(@, 0)],
               answers, i + 1, count,
               RemainingAfter(remaining_ocpus, ocpus),
               RemainingAfter(remaining_memory, memory))

ConfigureCustomInstances(cfg, avail, image, answers) ==
    LET amd_count == Max(0, Min(answers.amd, avail.amd_instances))
        amd == [cfg EXCEPT
                   !.amd_micro_instance_count = amd_count,
                   !.amd_micro_hostnames = [i \in 1..amd_count |-> AmdHostname(i)],
                   !.amd_micro_boot_volume_size_gb =
                       IF amd_count > 0 THEN Max(50, Min(answers.amd_boot, 100))
                       ELSE 50]
        arm_count == Max(0, Min(answers.arm, 4))
        none == [amd EXCEPT
                    !.arm_flex_hostnames = << >>,
                    !.arm_flex_ocpus_per_instance = << >>,
                    !.arm_flex_memory_per_instance = << >>,
                    !.arm_flex_boot_volume_size_gb = << >>,
                    !.arm_flex_block_volumes = << >>]
    IN IF image /\ avail.arm_ocpus > 0
       THEN CustomArmInstances([none EXCEPT !.arm_flex_instance_count = arm_count],
                               answers, 1, arm_count,
                               avail.arm_ocpus, avail.arm_memory)
       ELSE [none EXCEPT !.arm_flex_instance_count = 0]

(***************************************************************************)
(* SpecPlanner: Phases 5 and 6 of main() after an inventory that ran with  *)
(* every provider query answered, and the reconfigurations the menu asks   *)
(* for.  In this specification instance_config holds every field of       *)
(* InstanceConfig.                                                         *)
(***************************************************************************)
\* what the two image lists of fetch_ubuntu_images return: the x86 list holds
\* an image, the ARM list holds one or none
ImageListings == {[x86 |-> TRUE, arm |-> a] : a \in BOOLEAN}

\* fetch_ubuntu_images(): each id is taken from its own list and stays ""
\* when the list is empty; the function returns True in every case
FetchUbuntuImages(listed) ==
    [returned |-> TRUE,
     ubuntu_image_ocid |-> IF listed.x86 THEN "ocid1.image.x86" ELSE "",
     ubuntu_arm_flex_image_ocid |-> IF listed.arm THEN "ocid1.image.arm" ELSE ""]

\* the ARM instances of the modelled tenancies: none, within the limits,
\* exactly at the OCPU and memory limit, memory above the limit, both above
PlannerArmFleets ==
    {<< >>,
     <<[ocpus |-> 1, memory |-> 6]>>,
     <<[ocpus |-> 1, memory |-> 6], [ocpus |-> 2, memory |-> 12]>>,
     <<[ocpus |-> 4, memory |-> 24]>>,
     <<[ocpus |-> 1, memory |-> 30]>>,
     <<[ocpus |-> 4, memory |-> 24], [ocpus |-> 1, memory |-> 6]>>}

PlannerTenancies ==
    [amd : 0..MaxAmdInTenancy,
     arm : PlannerArmFleets,
     other : {0},
     vcns : {0},
     net : {<< >>},
     boot : {<< >>, <<50>>, <<50, 150>>},
     block : {<< >>}]

\* the switches of one run of the tool
PlannerModes ==
    {[skip |-> FALSE, auto_existing |-> FALSE, non_interactive |-> FALSE],
     [skip |-> TRUE, auto_existing |-> FALSE, non_interactive |-> FALSE],
     [skip |-> FALSE, auto_existing |-> TRUE, non_interactive |-> FALSE],
     [skip |-> FALSE, auto_existing |-> FALSE, non_interactive |-> TRUE]}

InitPlanner ==
    /\ maxAttempts = DEFAULT_RETRY_MAX_ATTEMPTS
    /\ baseDelay = DEFAULT_RETRY_BASE_DELAY
    /\ rb = RbIdle
    /\ ap = ApIdle
    /\ tenancy \in PlannerTenancies
    /\ LET ok == OciCmd("list", "ok")
           details == [i \in 1..Len(tenancy.arm) |-> ok]
       IN /\ existing_amd_instances = AmdInstancesFound(tenancy, ok)
          /\ existing_arm_instances = ArmInstancesFound(tenancy, ok, details)
          /\ existing_vcns = VcnsFound(tenancy, ok)
          /\ existing_subnets = ComponentsFound(tenancy, ok, ok, "subnet")
          /\ existing_internet_gateways =
                ComponentsFound(tenancy, ok, ok, "internet_gateway")
          /\ existing_route_tables = ComponentsFound(tenancy, ok, ok, "route_table")
          /\ existing_security_lists =
                ComponentsFound(tenancy, ok, ok, "security_list")
          /\ existing_boot_volumes = VolumesFound(tenancy.boot, ok, "boot")
          /\ existing_block_volumes = VolumesFound(tenancy.block, ok, "block")
    /\ ipc = "calculated"
    /\ ociLog = NoOciCalls
    /\ scan = ScanUnused
    /\ available =
          [computed |-> TRUE,
           value |-> CalculateAvailableResources(
                        existing_amd_instances, existing_arm_instances,
                        existing_boot_volumes, existing_block_volumes)]
    /\ \E mode \in PlannerModes :
          /\ SKIP_CONFIG = mode.skip
          /\ AUTO_USE_EXISTING = mode.auto_existing
          /\ NON_INTERACTIVE = mode.non_interactive
    /\ AUTO_DEPLOY = FALSE
    /\ instance_config = DefaultInstanceConfig
    /\ tfstate = {}
    /\ tfplan = << >>
    /\ pc = "unused"
    /\ menu_rounds = 0
    /\ imp = ImpIdle
    /\ exitCode = -1
    /\ run = RunIdle
    /\ batch = BatchIdle
    /\ \E listed \in ImageListings :
          ubuntu_arm_flex_image_ocid =
             (FetchUbuntuImages(listed).ubuntu_arm_flex_image_ocid # "")
    /\ variables_tf = AbsentFile
    /\ ppc = "config"
    /\ plan_rounds = 0
    /\ planned = NotPlanned
    /\ validation = NotValidated

\* the amounts validate_proposed_config is asked about
ProposedConfigs ==
    [amd : 0..3, arm_ocpus : {0, 1, 4}, arm_memory : {0, 6, 24},
     storage : {0, 100, 200}]

\* validate_proposed_config(...) against the inventory as it stands
ValidateProposed ==
    /\ ppc = "config"
    /\ plan_rounds = 0
    /\ ~validation.called
    /\ \E proposed \in ProposedConfigs :
          validation' = ValidateProposedConfig(
                           CalculateAvailableResources(
                              existing_amd_instances, existing_arm_instances,
                              existing_boot_volumes, existing_block_volumes),
                           proposed)
    /\ UNCHANGED <<retryVars, existingVars, invVars, wfVars, SKIP_CONFIG,
                   AUTO_USE_EXISTING, ubuntu_arm_flex_image_ocid, variables_tf,
                   ppc, plan_rounds, planned>>

\* what the user types at the prompts of configure_custom_instances
CustomAnswers ==
    {[amd |-> 0, amd_boot |-> 50, arm |-> 1,
      arm_ocpus |-> << << >>, << >>, << >>, << >> >>,
      arm_memory |-> << << >>, << >>, << >>, << >> >>,
      arm_boot |-> <<50, 50, 50, 50>>],
     [amd |-> 3, amd_boot |-> 120, arm |-> 2,
      arm_ocpus |-> << <<3>>, << >>, << >>, << >> >>,
      arm_memory |-> << <<12>>, <<12>>, <<12>>, <<12>> >>,
      arm_boot |-> <<30, 300, 50, 50>>],
     [amd |-> 1, amd_boot |-> 80, arm |-> 5,
      arm_ocpus |-> << <<1>>, <<1>>, <<1>>, <<1>> >>,
      arm_memory |-> << <<6>>, <<6>>, <<6>>, <<6>> >>,
      arm_boot |-> <<100, 100, 100, 100>>],
     [amd |-> 0 - 1, amd_boot |-> 50, arm |-> 0 - 2,
      arm_ocpus |-> << <<1>>, <<1>>, <<1>>, <<1>> >>,
      arm_memory |-> << <<6>>, <<6>>, <<6>>, <<6>> >>,
      arm_boot |-> <<50, 50, 50, 50>>],
     [amd |-> 2, amd_boot |-> 50, arm |-> 2,
      arm_ocpus |-> << <<4>>, <<4>>, <<4>>, <<4>> >>,
      arm_memory |-> << <<0>>, <<30>>, <<6>>, <<6>> >>,
      arm_boot |-> <<50, 50, 50, 50>>],
     [amd |-> 1, amd_boot |-> 40, arm |-> 3,
      arm_ocpus |-> << <<0 - 1>>, <<9>>, <<2>>, <<2>> >>,
      arm_memory |-> << <<2>>, <<99>>, << >>, << >> >>,
      arm_boot |-> <<0 - 5, 250, 120, 50>>]}

NoAnswers == << >>

\* the planner has run: instance_config and the record of what it did
Planned(strategy, loaded, config, answers) ==
    /\ instance_config' = config
    /\ planned' = [strategy |-> strategy,
                   found |-> loaded.found,
                   before |-> instance_config,
                   loaded |-> loaded.config,
                   file |-> variables_tf,
                   avail |-> available.value,
                   image |-> ubuntu_arm_flex_image_ocid,
                   answers |-> answers]
    /\ validation' = NotValidated
    /\ ppc' = "files"
    /\ UNCHANGED <<retryVars, existingVars, invVars, NON_INTERACTIVE, AUTO_DEPLOY,
                   tfstate, tfplan, pc, menu_rounds, imp, exitCode, run, batch,
                   SKIP_CONFIG, AUTO_USE_EXISTING, ubuntu_arm_flex_image_ocid,
                   variables_tf, plan_rounds>>

\* main, Phase 5 with SKIP_CONFIG:
\* if not load_existing_config(): configure_from_existing_instances()
SkipConfig ==
    /\ ppc = "config"
    /\ SKIP_CONFIG
    /\ \E loaded \in {LoadExistingConfig(instance_config, variables_tf)} :
          IF loaded.found
          THEN Planned("saved", loaded, loaded.config, NoAnswers)
          ELSE Planned("existing", loaded,
                       ConfigureFromExistingInstances(
                          loaded.config, existing_amd_instances,
                          existing_arm_instances),
                       NoAnswers)

\* prompt_configuration() is what runs next
Prompting ==
    \/ ppc = "config" /\ ~SKIP_CONFIG
    \/ ppc = "reconfig"

\* choice = 1 in auto mode, else what IntPrompt.ask returns
MayChooseStrategy(choice) ==
    (AUTO_USE_EXISTING \/ NON_INTERACTIVE) => choice = 1

\* prompt_configuration(), choice 1
PromptUseExisting ==
    /\ Prompting
    /\ MayChooseStrategy(1)
    /\ \E loaded \in {LoadExistingConfig(instance_config, variables_tf)} :
          Planned("existing", loaded,
                  ConfigureFromExistingInstances(
                     loaded.config, existing_amd_instances, existing_arm_instances),
                  NoAnswers)

\* prompt_configuration(), choice 2 with a saved configuration; without one
\* the prompt is shown again
PromptUseSaved ==
    /\ Prompting
    /\ MayChooseStrategy(2)
    /\ \E loaded \in {LoadExistingConfig(instance_config, variables_tf)} :
          /\ loaded.found
          /\ Planned("saved", loaded, loaded.config, NoAnswers)

\* prompt_configuration(), choice 3
PromptCustom ==
    /\ Prompting
    /\ MayChooseStrategy(3)
    /\ \E loaded \in {LoadExistingConfig(instance_config, variables_tf)} :
       \E answers \in CustomAnswers :
          Planned("custom", loaded,
                  ConfigureCustomInstances(
                     loaded.config,
                     CalculateAvailableResources(
                        existing_amd_instances, existing_arm_instances,
                        existing_boot_volumes, existing_block_volumes),
                     ubuntu_arm_flex_image_ocid, answers),
                  answers)

\* prompt_configuration(), choice 4
PromptMaximum ==
    /\ Prompting
    /\ MayChooseStrategy(4)
    /\ \E loaded \in {LoadExistingConfig(instance_config, variables_tf)} :
          Planned("maximum", loaded,
                  ConfigureMaximumFreeTier(
                     loaded.config,
                     CalculateAvailableResources(
                        existing_amd_instances, existing_arm_instances,
                        existing_boot_volumes, existing_block_volumes),
                     ubuntu_arm_flex_image_ocid),
                  NoAnswers)

\* main, Phase 6: create_terraform_files() writes variables.tf from the plan
CreateTerraformFiles ==
    /\ ppc = "files"
    /\ variables_tf' = CreateTerraformVariables(instance_config)
    /\ ppc' = "menu"
    /\ UNCHANGED <<retryVars, existingVars, invVars, wfVars, SKIP_CONFIG,
                   AUTO_USE_EXISTING, ubuntu_arm_flex_image_ocid, plan_rounds,
                   planned, validation>>

\* terraform_menu() returned False: main reconfigures
PlannerReconfigure ==
    /\ ppc = "menu"
    /\ plan_rounds < MaxPlanRounds
    /\ ~NON_INTERACTIVE
    /\ ppc' = "reconfig"
    /\ plan_rounds' = plan_rounds + 1
    /\ planned' = NotPlanned
    /\ UNCHANGED <<retryVars, existingVars, invVars, wfVars, SKIP_CONFIG,
                   AUTO_USE_EXISTING, ubuntu_arm_flex_image_ocid, variables_tf,
                   validation>>

\* the process ends and the tool is started again in the same directory
\* against the same tenancy
PlannerStartsAgain ==
    /\ ppc = "menu"
    /\ plan_rounds < MaxPlanRounds
    /\ \E mode \in PlannerModes :
          /\ SKIP_CONFIG' = mode.skip
          /\ AUTO_USE_EXISTING' = mode.auto_existing
          /\ NON_INTERACTIVE' = mode.non_interactive
    /\ instance_config' = DefaultInstanceConfig
    /\ ppc' = "config"
    /\ plan_rounds' = plan_rounds + 1
    /\ planned' = NotPlanned
    /\ UNCHANGED <<retryVars, existingVars, invVars, AUTO_DEPLOY, tfstate, tfplan,
                   pc, menu_rounds, imp, exitCode, run, batch,
                   ubuntu_arm_flex_image_ocid, variables_tf, validation>>

NextPlanner ==
    \/ ValidateProposed
    \/ SkipConfig
    \/ PromptUseExisting
    \/ PromptUseSaved
    \/ PromptCustom
    \/ PromptMaximum
    \/ CreateTerraformFiles
    \/ PlannerReconfigure
    \/ PlannerStartsAgain

SpecPlanner == InitPlanner /\ [][NextPlanner]_vars

(***************************************************************************)
(* Properties of the validation and of the planner, checked under          *)
(* SpecPlanner.                                                            *)
(***************************************************************************)
\* limit - used in each dimension, from the inventory
HeadroomOf(dimension) ==
    CASE dimension = "amd_instances" -> 2 - Len(existing_amd_instances)
      [] dimension = "arm_ocpus" -> 4 - UsedArmOcpus
      [] dimension = "arm_memory" -> 24 - UsedArmMemory
      [] dimension = "storage" -> 200 - UsedStorage

ProposedIn(dimension) ==
    CASE dimension = "amd_instances" -> validation.proposed.amd
      [] dimension = "arm_ocpus" -> validation.proposed.arm_ocpus
      [] dimension = "arm_memory" -> validation.proposed.arm_memory
      [] dimension = "storage" -> validation.proposed.storage

Dimensions == {"amd_instances", "arm_ocpus", "arm_memory", "storage"}

ReportsOf(dimension) ==
    Cardinality({k \in DOMAIN validation.reported :
                    validation.reported[k] = dimension})

\* C11: validate_proposed_config reports one violation for each of the four
\* dimensions whose proposed amount exceeds the headroom and none for the
\* others, returns True exactly when it reported nothing, and rejects every
\* request above 0 in a dimension whose use equals the limit.
C11_OneViolationPerExceededDimension ==
    validation.called =>
       /\ \A d \in Dimensions :
             ReportsOf(d) = IF ProposedIn(d) > HeadroomOf(d) THEN 1 ELSE 0
       /\ validation.errors = Cardinality({d \in Dimensions :
                                              ProposedIn(d) > HeadroomOf(d)})
       /\ validation.result <=> \A d \in Dimensions : ProposedIn(d) <= HeadroomOf(d)
       /\ \A d \in Dimensions :
             (HeadroomOf(d) = 0 /\ ProposedIn(d) > 0) => ~validation.result

\* three dimensions exceeded at once, one of them with its use at the limit
C11_Witness ==
    /\ validation.called
    /\ validation.errors = 3
    /\ HeadroomOf("arm_ocpus") = 0
    /\ ProposedIn("arm_ocpus") > 0
    /\ ReportsOf("arm_ocpus") = 1


\* configure_maximum_free_tier has just run
MaximumPlanned == ppc = "files" /\ planned.strategy = "maximum"

\* max(47, storage headroom - AMD count * AMD boot volume size)
MaximumBootVolumeExpected ==
    Max(47, HeadroomOf("storage")
            - instance_config.amd_micro_instance_count
              * instance_config.amd_micro_boot_volume_size_gb)

\* one ARM instance that takes the whole OCPU and memory headroom
OneArmInstanceWithAllHeadroom ==
    /\ instance_config.arm_flex_instance_count = 1
    /\ instance_config.arm_flex_ocpus_per_instance = <<HeadroomOf("arm_ocpus")>>
    /\ instance_config.arm_flex_memory_per_instance = <<HeadroomOf("arm_memory")>>
    /\ instance_config.arm_flex_boot_volume_size_gb = <<MaximumBootVolumeExpected>>

NoArmInstance ==
    /\ instance_config.arm_flex_instance_count = 0
    /\ instance_config.arm_flex_ocpus_per_instance = << >>
    /\ instance_config.arm_flex_memory_per_instance = << >>
    /\ instance_config.arm_flex_boot_volume_size_gb = << >>
    /\ instance_config.arm_flex_hostnames = << >>

\* C13 as stated: configure_maximum_free_tier sets the AMD count to the AMD
\* headroom and always plans exactly one ARM instance with the whole OCPU
\* and memory headroom and a boot volume of max(47, storage headroom - AMD
\* count * AMD boot volume size).
C13_MaximumAlwaysPlansOneArm ==
    MaximumPlanned =>
       /\ instance_config.amd_micro_instance_count = HeadroomOf("amd_instances")
       /\ OneArmInstanceWithAllHeadroom

\* C13 (amended): configure_maximum_free_tier sets the AMD count to the AMD
\* headroom and the AMD boot volume to 50; when an ARM image is known and
\* the ARM OCPU headroom is above 0 it plans exactly one ARM instance with
\* the whole OCPU and memory headroom and a boot volume of max(47, storage
\* headroom - AMD count * AMD boot volume size), and otherwise it plans no
\* ARM instance at all.
C13_MaximumPlansOneArmWhenPossible ==
    MaximumPlanned =>
       /\ instance_config.amd_micro_instance_count = HeadroomOf("amd_instances")
       /\ instance_config.amd_micro_boot_volume_size_gb = 50
       /\ IF ubuntu_arm_flex_image_ocid /\ HeadroomOf("arm_ocpus") > 0
          THEN OneArmInstanceWithAllHeadroom
          ELSE NoArmInstance

\* the maximum plan of a tenancy whose storage is used up: one ARM instance
\* with the floor of 47 GB
C13_Witness ==
    /\ MaximumPlanned
    /\ instance_config.arm_flex_instance_count = 1
    /\ instance_config.arm_flex_ocpus_per_instance = <<3>>
    /\ instance_config.arm_flex_boot_volume_size_gb = <<47>>
    /\ HeadroomOf("storage") = 0


\* configure_from_existing_instances has just run
ExistingPlanned == ppc = "files" /\ planned.strategy = "existing"

InventoryHasNoInstance ==
    Len(existing_amd_instances) = 0 /\ Len(existing_arm_instances) = 0

\* the plan describes the inventory instance by instance
MirrorsInventory ==
    /\ instance_config.amd_micro_instance_count = Len(existing_amd_instances)
    /\ Len(instance_config.amd_micro_hostnames) = Len(existing_amd_instances)
    /\ \A i \in 1..Len(existing_amd_instances) :
          instance_config.amd_micro_hostnames[i] = existing_amd_instances[i].name
    /\ instance_config.arm_flex_instance_count = Len(existing_arm_instances)
    /\ Len(instance_config.arm_flex_hostnames) = Len(existing_arm_instances)
    /\ Len(instance_config.arm_flex_ocpus_per_instance) = Len(existing_arm_instances)
    /\ Len(instance_config.arm_flex_memory_per_instance) = Len(existing_arm_instances)
    /\ \A i \in 1..Len(existing_arm_instances) :
          /\ instance_config.arm_flex_hostnames[i] = existing_arm_instances[i].name
          /\ instance_config.arm_flex_ocpus_per_instance[i] =
                existing_arm_instances[i].ocpus
          /\ instance_config.arm_flex_memory_per_instance[i] =
                existing_arm_instances[i].memory

\* 0 AMD, 1 ARM instance with 4 OCPUs, 24 GB and a 200 GB boot volume
IsDefaultPlan ==
    /\ instance_config.amd_micro_instance_count = 0
    /\ instance_config.arm_flex_instance_count = 1
    /\ instance_config.arm_flex_ocpus_per_instance = <<4>>
    /\ instance_config.arm_flex_memory_per_instance = <<24>>
    /\ instance_config.arm_flex_boot_volume_size_gb = <<200>>

\* C15: configure_from_existing_instances mirrors the inventory one-to-one
\* (AMD count and hostnames; ARM count, hostnames, OCPUs and memory, element
\* i of each array describing instance i), and it produces the default plan
\* (0 AMD, 1 ARM with 4 OCPUs, 24 GB, 200 GB boot) if and only if the
\* inventory holds no AMD and no ARM instance.
C15_MirrorsInventoryOrDefault ==
    ExistingPlanned =>
       /\ IsDefaultPlan <=> InventoryHasNoInstance
       /\ ~InventoryHasNoInstance => MirrorsInventory

\* one AMD and two ARM instances mirrored
C15_Witness ==
    /\ ExistingPlanned
    /\ Len(existing_amd_instances) = 1
    /\ Len(existing_arm_instances) = 2
    /\ instance_config.arm_flex_ocpus_per_instance = <<1, 2>>
    /\ instance_config.arm_flex_hostnames = <<DisplayName("arm", 1), DisplayName("arm", 2)>>

\* the default plan of an empty tenancy
C15_WitnessDefault ==
    /\ ExistingPlanned
    /\ InventoryHasNoInstance
    /\ IsDefaultPlan

\* the planner has finished: the plan is what the files are written from
PlannerFinished == ppc \in {"files", "menu"}

ArmArraysMatchCount ==
    /\ Len(instance_config.arm_flex_ocpus_per_instance) =
          instance_config.arm_flex_instance_count
    /\ Len(instance_config.arm_flex_memory_per_instance) =
          instance_config.arm_flex_instance_count
    /\ Len(instance_config.arm_flex_boot_volume_size_gb) =
          instance_config.arm_flex_instance_count
    /\ Len(instance_config.arm_flex_hostnames) =
          instance_config.arm_flex_instance_count

\* C16: after the planner has finished with any of its four strategies, on
\* a first run or a reconfiguration, the plan's ARM OCPU, memory, boot
\* volume and hostname arrays all have the length of the ARM instance count.
C16_ArmArraysHaveLengthOfCount ==
    PlannerFinished => ArmArraysMatchCount

\* load_existing_config has just run, as the first step of the planner
ConfigLoaded == ppc = "files" /\ planned.strategy # "none"

\* the fields load_existing_config reads
SameSavedFields(a, b) ==
    /\ a.amd_micro_instance_count = b.amd_micro_instance_count
    /\ a.amd_micro_boot_volume_size_gb = b.amd_micro_boot_volume_size_gb
    /\ a.arm_flex_instance_count = b.arm_flex_instance_count
    /\ a.arm_flex_ocpus_per_instance = b.arm_flex_ocpus_per_instance
    /\ a.arm_flex_memory_per_instance = b.arm_flex_memory_per_instance
    /\ a.arm_flex_boot_volume_size_gb = b.arm_flex_boot_volume_size_gb
    /\ a.amd_micro_hostnames = b.amd_micro_hostnames
    /\ a.arm_flex_hostnames = b.arm_flex_hostnames

\* every count and size of a plan is 0 or more
NoNegativeAmount(cfg) ==
    /\ cfg.amd_micro_instance_count >= 0
    /\ \A i \in DOMAIN cfg.arm_flex_ocpus_per_instance :
          cfg.arm_flex_ocpus_per_instance[i] >= 0
    /\ \A i \in DOMAIN cfg.arm_flex_memory_per_instance :
          cfg.arm_flex_memory_per_instance[i] >= 0

\* C17: load_existing_config recovers from a variables.tf written by
\* create_terraform_variables the AMD count, AMD boot volume size, ARM count,
\* OCPU / memory / boot volume arrays and hostnames of the plan it was
\* written from, for every plan the planner produces; without a variables.tf
\* it reports unavailable and leaves the plan unchanged.
C17_SavedPlanIsRecovered ==
    ConfigLoaded =>
       /\ planned.found <=> planned.file.exists
       /\ planned.found => SameSavedFields(planned.loaded, planned.file.plan)
       /\ ~planned.found => planned.loaded = planned.before

\* the same for the plans that hold no negative amount
RoundTripOfNonNegativePlans ==
    (ConfigLoaded /\ planned.found /\ NoNegativeAmount(planned.file.plan))
       => SameSavedFields(planned.loaded, planned.file.plan)

\* configure_custom_instances or configure_maximum_free_tier has just run
CustomOrMaximumPlanned ==
    ppc = "files" /\ planned.strategy \in {"custom", "maximum"}

AllAtLeastZero(values) == \A i \in DOMAIN values : values[i] >= 0

AllZero(values) == \A i \in DOMAIN values : values[i] = 0

\* C20: in the custom and the maximum strategy a headroom of 0 or less
\* blocks allocation in its dimension (AMD count 0; no ARM instance with
\* OCPUs; no ARM instance with memory), and no planned count or size is
\* negative.
C20_NoAllocationWithoutHeadroom ==
    CustomOrMaximumPlanned =>
       /\ HeadroomOf("amd_instances") <= 0 =>
             instance_config.amd_micro_instance_count = 0
       /\ HeadroomOf("arm_ocpus") <= 0 =>
             AllZero(instance_config.arm_flex_ocpus_per_instance)
       /\ HeadroomOf("arm_memory") <= 0 =>
             AllZero(instance_config.arm_flex_memory_per_instance)
       /\ instance_config.amd_micro_instance_count >= 0
       /\ instance_config.amd_micro_boot_volume_size_gb >= 0
       /\ instance_config.arm_flex_instance_count >= 0
       /\ AllAtLeastZero(instance_config.arm_flex_ocpus_per_instance)
       /\ AllAtLeastZero(instance_config.arm_flex_memory_per_instance)
       /\ AllAtLeastZero(instance_config.arm_flex_boot_volume_size_gb)

(***************************************************************************)
(* The end-to-end scenario, checked under SpecWorkflow: one existing AMD   *)
(* instance, no ARM instance, the maximum plan carried through import and  *)
(* apply.                                                                  *)
(***************************************************************************)
ScenarioTenancy ==
    /\ Len(existing_amd_instances) = 1
    /\ Len(existing_arm_instances) = 0

\* the headroom of the scenario and the plan configure_maximum_free_tier
\* makes of it
ScenarioHeadroom ==
    CalculateAvailableResources(existing_amd_instances, existing_arm_instances,
                                existing_boot_volumes, existing_block_volumes)

ScenarioPlan ==
    ConfigureMaximumFreeTier(DefaultInstanceConfig, ScenarioHeadroom,
                             ubuntu_arm_flex_image_ocid)

\* the workflow runs with the counts of the maximum plan
ScenarioPlanChosen ==
    /\ ScenarioTenancy
    /\ instance_config.amd_micro_instance_count = ScenarioPlan.amd_micro_instance_count
    /\ instance_config.arm_flex_instance_count = ScenarioPlan.arm_flex_instance_count

\* terraform apply creates what the plan holds and the state does not
AmdCreatedByApply ==
    {a \in PlannedAddresses(instance_config) \ tfstate : a[1] = "oci_core_instance.amd"}

\* a terraform apply of the scenario's plan ends with exit code 0 after every
\* import of the run succeeded
ScenarioApplySucceeds ==
    /\ ScenarioPlanChosen
    /\ pc = "wf_apply"
    /\ run.import = "true"
    /\ ap.status = "running"
    /\ ap'.status = "true"
    /\ \A a \in RetainedAddresses : a \in tfstate

ScenarioHeadroomAndPlan ==
    ScenarioTenancy =>
       /\ ScenarioHeadroom.amd_instances = 1
       /\ ScenarioHeadroom.arm_ocpus = 4
       /\ ScenarioHeadroom.arm_memory = 24
       /\ ScenarioHeadroom.storage = 200 - SumSize(existing_boot_volumes)
       /\ ScenarioPlan.amd_micro_instance_count = 1
       /\ ScenarioPlan.arm_flex_instance_count = 1
       /\ ScenarioPlan.arm_flex_ocpus_per_instance = <<4>>
       /\ ScenarioPlan.arm_flex_memory_per_instance = <<24>>

\* C14: with 1 existing AMD instance and no ARM instance the headroom is
\* (amd 1, OCPU 4, memory 24, storage 200 - existing boot size), the maximum
\* plan has 1 AMD instance and 1 ARM instance of 4 OCPUs and 24 GB, and the
\* planned AMD instance is additional: import and apply leave the tenancy
\* with the existing AMD instance plus one newly created one.
C14_MaximumPlanAddsAnAmdInstance ==
    /\ [](ScenarioHeadroomAndPlan)
    /\ [][ScenarioApplySucceeds =>
             Len(existing_amd_instances) + Cardinality(AmdCreatedByApply) = 2]_vars


(***************************************************************************)
(* SpecRescan: inventory_all_resources called as a whole, twice, against   *)
(* an unchanged tenancy, with calculate_available_resources after each     *)
(* scan.  scan.answers holds the outcome of every provider query of the    *)
(* last scan, scan.first what the first scan left.                         *)
(***************************************************************************)
\* a category's dict after its inventory function: the entries of an
\* earlier scan kept next to the ones found
RescannedMerging(previous, found) ==
    found \o SelectSeq(previous,
                       LAMBDA e : \A i \in DOMAIN found : found[i].id # e.id)

\* existing_x = {} and then the entries found
Rescanned(previous, found) == found

ExistingNow ==
    [amd |-> existing_amd_instances,
     arm |-> existing_arm_instances,
     vcns |-> existing_vcns,
     subnets |-> existing_subnets,
     internet_gateways |-> existing_internet_gateways,
     route_tables |-> existing_route_tables,
     security_lists |-> existing_security_lists,
     boot |-> existing_boot_volumes,
     block |-> existing_block_volumes]

\* inventory_all_resources(): the nine dicts it leaves
InventoryAllResources(previous, t, answers) ==
    LET list == OciCmd("compute instance list", answers.compute)
        details == [i \in 1..Len(t.arm) |->
                       OciCmd("compute instance get", answers.details[i])]
        vcn == OciCmd("network vcn list", answers.vcn)
        sub == [k \in ComponentKinds |-> OciCmd(k, answers.sub[k])]
        boot == OciCmd("bv boot-volume list", answers.boot)
        block == OciCmd("bv volume list", answers.block)
    IN [amd |-> Rescanned(previous.amd, AmdInstancesFound(t, list)),
        arm |-> Rescanned(previous.arm, ArmInstancesFound(t, list, details)),
        vcns |-> Rescanned(previous.vcns, VcnsFound(t, vcn)),
        subnets |-> Rescanned(previous.subnets,
                              ComponentsFound(t, vcn, sub["subnet"], "subnet")),
        internet_gateways |->
            Rescanned(previous.internet_gateways,
                      ComponentsFound(t, vcn, sub["internet_gateway"],
                                      "internet_gateway")),
        route_tables |-> Rescanned(previous.route_tables,
                                   ComponentsFound(t, vcn, sub["route_table"],
                                                   "route_table")),
        security_lists |-> Rescanned(previous.security_lists,
                                     ComponentsFound(t, vcn, sub["security_list"],
                                                     "security_list")),
        boot |-> Rescanned(previous.boot, VolumesFound(t.boot, boot, "boot")),
        block |-> Rescanned(previous.block, VolumesFound(t.block, block, "block"))]

\* the dicts become what a scan returned
ExistingBecomes(found) ==
    /\ existing_amd_instances' = found.amd
    /\ existing_arm_instances' = found.arm
    /\ existing_vcns' = found.vcns
    /\ existing_subnets' = found.subnets
    /\ existing_internet_gateways' = found.internet_gateways
    /\ existing_route_tables' = found.route_tables
    /\ existing_security_lists' = found.security_lists
    /\ existing_boot_volumes' = found.boot
    /\ existing_block_volumes' = found.block

RescanTenancies ==
    [amd : {0, MaxAmdRescan},
     arm : {<< >>, <<[ocpus |-> 4, memory |-> 24]>>,
            <<[ocpus |-> 1, memory |-> 6], [ocpus |-> 1, memory |-> 6]>>},
     other : {1},
     vcns : {0, 1},
     net : {<< >>, FullNet},
     boot : {<<50>>, <<50, 100>>},
     block : {<<100>>}]

\* the outcomes of the queries of one scan; a query that is not made (the
\* details of instances never listed, the components of a VCN never found)
\* counts as answered
ScanAnswers(t) ==
    {a \in [compute : OciOutcomes,
            details : [1..Len(t.arm) -> OciOutcomes],
            vcn : OciOutcomes,
            sub : [ComponentKinds -> OciOutcomes],
            boot : OciOutcomes,
            block : OciOutcomes] :
        /\ a.compute = "fails" => \A i \in 1..Len(t.arm) : a.details[i] = "ok"
        /\ (a.vcn = "fails" \/ t.vcns = 0) => \A k \in ComponentKinds : a.sub[k] = "ok"}

AllAnswers(t, outcome) ==
    [compute |-> outcome,
     details |-> [i \in 1..Len(t.arm) |-> IF outcome = "fails" THEN "ok" ELSE outcome],
     vcn |-> outcome,
     sub |-> [k \in ComponentKinds |->
                 IF outcome = "fails" \/ t.vcns = 0 THEN "ok" ELSE outcome],
     boot |-> outcome,
     block |-> outcome]

InitRescan ==
    /\ maxAttempts = DEFAULT_RETRY_MAX_ATTEMPTS
    /\ baseDelay = DEFAULT_RETRY_BASE_DELAY
    /\ rb = RbIdle
    /\ ap = ApIdle
    /\ tenancy \in RescanTenancies
    /\ tenancy.vcns = 0 <=> tenancy.net = << >>
    /\ EmptyInventory
    /\ ipc = "scan"
    /\ ociLog = NoOciCalls
    /\ scan = [round |-> 0, answers |-> << >>, first |-> << >>]
    /\ available = NoAvailable
    /\ WorkflowUnused
    /\ PlannerUnused

\* inventory_all_resources(), the first time
ScanInventory ==
    /\ ipc = "scan"
    /\ \E answers \in ScanAnswers(tenancy) :
          /\ ExistingBecomes(InventoryAllResources(ExistingNow, tenancy, answers))
          /\ scan' = [scan EXCEPT !.round = 1, !.answers = answers]
    /\ ipc' = "inventoried"
    /\ UNCHANGED <<retryVars, tenancy, ociLog, available, wfVars, planVars>>

\* inventory_all_resources() once more; the provider answers as before, or
\* every query fails, or every query is answered
ScanAgain ==
    /\ ipc = "calculated"
    /\ scan.round = 1
    /\ \E answers \in {scan.answers, AllAnswers(tenancy, "fails"),
                       AllAnswers(tenancy, "ok")} :
          /\ ExistingBecomes(InventoryAllResources(ExistingNow, tenancy, answers))
          /\ scan' = [round |-> 2,
                      answers |-> answers,
                      first |-> [answers |-> scan.answers,
                                 existing |-> ExistingNow,
                                 available |-> available.value]]
    /\ ipc' = "inventoried"
    /\ UNCHANGED <<retryVars, tenancy, ociLog, available, wfVars, planVars>>

NextRescan ==
    \/ ScanInventory
    \/ CalculateAvailable
    \/ ScanAgain

SpecRescan == InitRescan /\ [][NextRescan]_vars

\* the number of resources in each category
CountsOf(existing) == [c \in DOMAIN existing |-> Len(existing[c])]

NothingFound(existing) == \A c \in DOMAIN existing : existing[c] = << >>

SecondScanCalculated == scan.round = 2 /\ ipc = "calculated"

\* C18: a second inventory of an unchanged tenancy that gets the same
\* provider answers leaves the same number of resources in every category
\* and the same headroom; every scan replaces what the earlier one left: a
\* second scan whose queries all fail leaves every category empty.
C18_RescanReplacesAndRepeats ==
    SecondScanCalculated =>
       /\ scan.answers = scan.first.answers =>
             /\ CountsOf(ExistingNow) = CountsOf(scan.first.existing)
             /\ available.value = scan.first.available
       /\ scan.answers = AllAnswers(tenancy, "fails") => NothingFound(ExistingNow)

\* a second scan with the same answers (the boot volume query failing both
\* times) over a tenancy with instances, a VCN and volumes
C18_Witness ==
    /\ SecondScanCalculated
    /\ scan.answers = scan.first.answers
    /\ scan.answers.boot = "fails"
    /\ scan.answers.compute = "ok"
    /\ Len(existing_amd_instances) = MaxAmdRescan
    /\ Len(existing_arm_instances) = 2
    /\ Len(existing_vcns) = 1
    /\ Len(existing_block_volumes) = 1

\* a scan has gone through all its categories
ScanComplete == scan.round >= 1 /\ ipc \in {"inventoried", "calculated"}

ComponentsOfKind(kind) ==
    CASE kind = "subnet" -> existing_subnets
      [] kind = "internet_gateway" -> existing_internet_gateways
      [] kind = "route_table" -> existing_route_tables
      [] kind = "security_list" -> existing_security_lists

\* C19: a failed provider query leaves its category empty, and the scan goes
\* on: every category whose own query is answered is filled from the
\* tenancy whatever failed before it (compute, then networking, then boot
\* volumes and block volumes each on their own).
C19_FailedCategoryIsEmptyOthersScanned ==
    ScanComplete =>
       /\ IF scan.answers.compute = "fails"
          THEN existing_amd_instances = << >> /\ existing_arm_instances = << >>
          ELSE /\ Len(existing_amd_instances) = tenancy.amd
               /\ Len(existing_arm_instances) = Len(tenancy.arm)
       /\ IF scan.answers.vcn = "fails"
          THEN /\ existing_vcns = << >>
               /\ \A k \in ComponentKinds : ComponentsOfKind(k) = << >>
          ELSE /\ Len(existing_vcns) = tenancy.vcns
               /\ \A k \in ComponentKinds :
                     IF scan.answers.sub[k] = "fails"
                     THEN ComponentsOfKind(k) = << >>
                     ELSE Len(ComponentsOfKind(k)) = Len(SelectKind(tenancy.net, k))
       /\ IF scan.answers.boot = "fails"
          THEN existing_boot_volumes = << >>
          ELSE Len(existing_boot_volumes) = Len(tenancy.boot)
       /\ IF scan.answers.block = "fails"
          THEN existing_block_volumes = << >>
          ELSE Len(existing_block_volumes) = Len(tenancy.block)

\* the compute, VCN and boot volume queries fail, the block volumes are
\* found all the same
C19_Witness ==
    /\ ScanComplete
    /\ scan.round = 1
    /\ scan.answers.compute = "fails"
    /\ scan.answers.vcn = "fails"
    /\ scan.answers.boot = "fails"
    /\ scan.answers.block = "ok"
    /\ tenancy.amd > 0
    /\ existing_amd_instances = << >>
    /\ Len(existing_block_volumes) = 1


(***************************************************************************)
(* Further properties of the validation and of the planner, checked under  *)
(* SpecPlanner.                                                            *)
(***************************************************************************)
ZeroProposed == \A d \in Dimensions : ProposedIn(d) = 0

\* C21: validate_proposed_config compares each proposed amount against a
\* headroom that is never negative (max(0, limit - used)), so a proposal of
\* 0 in every dimension is accepted whatever the inventory holds.
C21_ValidationHeadroomNeverNegative ==
    validation.called =>
       /\ \A d \in Dimensions :
             ReportsOf(d) = IF ProposedIn(d) > Max(0, HeadroomOf(d)) THEN 1 ELSE 0
       /\ ZeroProposed => validation.result

\* configure_custom_instances has planned ARM instances from the answers
CustomArmPlanned ==
    /\ ppc = "files"
    /\ planned.strategy = "custom"
    /\ instance_config.arm_flex_instance_count > 0

\* the upper bound of instance i: the headroom less what instances 1..i-1
\* were assigned
OcpuBoundOf(i) ==
    planned.avail.arm_ocpus
       - TotalUpTo(instance_config.arm_flex_ocpus_per_instance, i - 1)

MemoryBoundOf(i) ==
    planned.avail.arm_memory
       - TotalUpTo(instance_config.arm_flex_memory_per_instance, i - 1)

\* C22: in configure_custom_instances the upper bound applied to ARM instance
\* i+1 for OCPUs (and for memory, together with 6 GB per OCPU) is the headroom
\* minus the sum of the amounts assigned to instances 1..i; with 4 OCPUs of
\* headroom and a first instance assigned 3, the second instance is assigned
\* exactly 1 OCPU.
C22_BoundIsHeadroomLessAssigned ==
    CustomArmPlanned =>
       /\ \A i \in 1..instance_config.arm_flex_instance_count :
             /\ instance_config.arm_flex_ocpus_per_instance[i] =
                   Max(1, Min(Answered(planned.answers.arm_ocpus[i], OcpuBoundOf(i)),
                              OcpuBoundOf(i)))
             /\ LET max_memory ==
                       Min(instance_config.arm_flex_ocpus_per_instance[i] * 6,
                           MemoryBoundOf(i))
                IN instance_config.arm_flex_memory_per_instance[i] =
                      Max(1, Min(Answered(planned.answers.arm_memory[i], max_memory),
                                 max_memory))
       /\ (/\ planned.avail.arm_ocpus = 4
           /\ instance_config.arm_flex_instance_count >= 2
           /\ instance_config.arm_flex_ocpus_per_instance[1] = 3)
          => instance_config.arm_flex_ocpus_per_instance[2] = 1

C22_Witness ==
    /\ CustomArmPlanned
    /\ planned.avail.arm_ocpus = 4
    /\ instance_config.arm_flex_instance_count = 2
    /\ planned.answers.arm_ocpus[2] = << >>
    /\ instance_config.arm_flex_ocpus_per_instance = <<3, 1>>

CustomPlanned == ppc = "files" /\ planned.strategy = "custom"

\* C23: in configure_custom_instances every stored value lies in its range
\* whatever the user enters: AMD count in [0, AMD headroom], AMD boot volume
\* in [50,100], ARM count in [0,4], each ARM boot volume in [50,200], each
\* ARM instance's OCPUs at most the remaining OCPUs and its memory at most
\* min(ocpus*6, remaining memory).
C23_CustomValuesInRange ==
    CustomPlanned =>
       /\ instance_config.amd_micro_instance_count >= 0
       /\ instance_config.amd_micro_instance_count <= planned.avail.amd_instances
       /\ instance_config.amd_micro_boot_volume_size_gb \in 50..100
       /\ instance_config.arm_flex_instance_count \in 0..4
       /\ \A i \in 1..instance_config.arm_flex_instance_count :
             /\ instance_config.arm_flex_boot_volume_size_gb[i] \in 50..200
             /\ instance_config.arm_flex_ocpus_per_instance[i] <= OcpuBoundOf(i)
             /\ instance_config.arm_flex_memory_per_instance[i] <=
                   Min(instance_config.arm_flex_ocpus_per_instance[i] * 6,
                       MemoryBoundOf(i))

PlannedArmOcpus ==
    TotalUpTo(instance_config.arm_flex_ocpus_per_instance,
              Len(instance_config.arm_flex_ocpus_per_instance))

PlannedArmMemory ==
    TotalUpTo(instance_config.arm_flex_memory_per_instance,
              Len(instance_config.arm_flex_memory_per_instance))

PlannedBootStorage ==
    instance_config.amd_micro_instance_count
          * instance_config.amd_micro_boot_volume_size_gb
       + TotalUpTo(instance_config.arm_flex_boot_volume_size_gb,
                   Len(instance_config.arm_flex_boot_volume_size_gb))

\* C27: for any input of configure_custom_instances and any ARM count it
\* accepts, the OCPUs of the planned ARM instances sum to at most the ARM OCPU
\* headroom and their memory sums to at most the ARM memory headroom.
C27_CustomTotalsWithinHeadroom ==
    CustomArmPlanned =>
       /\ PlannedArmOcpus <= planned.avail.arm_ocpus
       /\ PlannedArmMemory <= planned.avail.arm_memory

\* C28: the plan of configure_maximum_free_tier passes validate_proposed_config
\* against the same inventory: AMD count, total ARM OCPUs, total ARM memory
\* and total planned boot storage are each within the headroom.
C28_MaximumPlanPassesValidation ==
    MaximumPlanned =>
       ValidateProposedConfig(
          CalculateAvailableResources(
             existing_amd_instances, existing_arm_instances,
             existing_boot_volumes, existing_block_volumes),
          [amd |-> instance_config.amd_micro_instance_count,
           arm_ocpus |-> PlannedArmOcpus,
           arm_memory |-> PlannedArmMemory,
           storage |-> PlannedBootStorage]).result

\* C26: when no ARM Ubuntu image is found but an x86 image is, the run goes on
\* and the image id used for ARM instances falls back to the x86 image, so
\* that ARM instances can still be planned: with an x86 image listed, the
\* planner always finds an ARM image id set, and the maximum strategy plans
\* its ARM instance whenever OCPU headroom is left.
C26_MissingArmImageFallsBackToX86 ==
    (MaximumPlanned /\ planned.avail.arm_ocpus > 0) =>
       /\ planned.image
       /\ instance_config.arm_flex_instance_count = 1

(***************************************************************************)
(* Further properties of the import and of the menu, checked under         *)
(* SpecWorkflow.                                                           *)
(***************************************************************************)
\* import_existing_resources is going through its items
Importing == pc \in {"imp_item", "imp_components"}

\* C25: an import of the VCN or of an instance is treated as successful
\* (counted as imported) exactly when terraform import ended with exit code 0
\* on some attempt, which is when the address has entered the state, and as
\* failed exactly when every attempt ended with a non-zero exit code.
C25_ImportSucceedsExactlyOnExitZero ==
    Importing =>
       \A i \in DOMAIN batch.outcomes :
          LET o == batch.outcomes[i]
          IN /\ o.outcome = "imported" => o.addr \in tfstate
             /\ o.outcome = "failed" => o.addr \notin tfstate

\* terraform state show ran for the address of a VCN component
CascadeRan ==
    \E k \in ComponentKinds, s \in batch.shown : s.addr = ComponentAddress(k)

\* the VCN import of this run ended as "Imported successfully"
VcnImportedInThisRun ==
    \E i \in DOMAIN batch.outcomes :
       batch.outcomes[i] = [addr |-> VcnAddress, outcome |-> "imported"]

\* C24: the VCN component cascade runs only after a VCN import that
\* succeeded in this run; it attempts at most one internet gateway, one
\* subnet, one route table and one security list, each belonging to the
\* imported VCN by its recorded vcn_id; a route table or security list is
\* attempted only if its name carries the default marker, and a kind without
\* such a component is skipped.
C24_CascadeAfterVcnImportOnly ==
    /\ (CascadeRan \/ batch.components # {} \/ pc = "imp_components")
          => VcnImportedInThisRun
    /\ \A c \in batch.components :
          /\ c.component.vcn_id = existing_vcns[1].id
          /\ c.kind \in {"route_table", "security_list"} => c.component.default
          /\ \A d \in batch.components : d.kind = c.kind => d = c
    /\ \A k \in ComponentKinds :
          (\E s \in batch.shown : s.addr = ComponentAddress(k))
             <=> (\E c \in batch.components : c.kind = k)
    /\ \A m \in batch.imports : \A k \in ComponentKinds :
          m.addr = ComponentAddress(k) =>
             /\ ~m.inState
             /\ \E c \in batch.components : c.kind = k

\* the cascade ran for the first of two VCNs: only its subnet was attempted
C24_Witness ==
    /\ tenancy.vcns = 2
    /\ VcnImportedInThisRun
    /\ batch.components =
          {[kind |-> "subnet",
            component |-> [id |-> <<"subnet", 1>>, vcn_id |-> <<"vcn", 1>>,
                           default |-> FALSE]]}

\* the cascade ran for a VCN with every kind: the default route table, which
\* is listed after a custom one, was attempted
C24_WitnessDefaultMarker ==
    /\ tenancy.vcns = 1
    /\ VcnImportedInThisRun
    /\ Cardinality(batch.components) = 4
    /\ \E c \in batch.components :
          c.kind = "route_table" /\ c.component.id = <<"route_table", 2>>

\* the VCN was already in state: no cascade
C24_WitnessAlreadyInState ==
    /\ \E i \in DOMAIN batch.outcomes :
          batch.outcomes[i] = [addr |-> VcnAddress, outcome |-> "already"]
    /\ tenancy.net # << >>
    /\ pc = "imp_item"
    /\ imp.cursor > Len(ImportItems)
    /\ ~CascadeRan

AutoMode == AUTO_DEPLOY \/ NON_INTERACTIVE

\* C29: with AUTO_DEPLOY or NON_INTERACTIVE set, terraform_menu runs the full
\* workflow at most once and then returns, whether the workflow succeeded or
\* failed: once an option was taken the loop is never at its top again, where
\* auto mode takes choice 1 without asking.
C29_AutoModeRunsWorkflowOnceAndReturns ==
    (AutoMode /\ pc = "menu") => menu_rounds = 0

(***************************************************************************)
(* A further property of the two retry loops, checked under SpecRetry.     *)
(***************************************************************************)
\* C30: for every attempt limit, 0 and negative ones included, retry_with_backoff
\* and out_of_capacity_auto_apply invoke their operation at least once, and
\* retry_with_backoff ends by returning the operation's result or by raising
\* an error the operation produced.
C30_OperationInvokedAtLeastOnce ==
    /\ rb.status \in {"returned", "raised"} => rb.calls >= 1
    /\ rb.status = "raised" =>
          /\ rb.errors # << >>
          /\ rb.raised = <<rb.errors[Len(rb.errors)]>>
    /\ ap.status \in {"true", "false"} => ap.calls >= 1

====
